---- MODULE Spec2Model ----
(***************************************************************************)
(* A state-machine model of finetune.base.BaseModel: the training          *)
(* protocol, the cached / uncached inference protocol with its padding     *)
(* queue, the save / load state machine and the chunk bookkeeping of       *)
(* process_long_sequence.                                                  *)
(***************************************************************************)
EXTENDS Integers, Sequences, FiniteSets, TLC

(***************************************************************************)
(* Bounds of the model.                                                    *)
(***************************************************************************)
\* the largest number of examples handed to one inference call
MaxExamples == 2
\* the fixed batch size of the prediction stream (config.predict_batch_size)
BatchSize == 2
\* the largest number of documents handed to process_long_sequence
MaxDocs == 3
\* the largest number of chunks the text encoder splits one document into
MaxChunks == 2
\* the largest batch_size argument handed to finetune
MaxBatchArg == 1
\* the largest config.batch_size, config.n_epochs and number of visible devices
MaxBatchSize == 2
MaxEpochs == 2
MaxGpus == 2
\* the latest second of the clock
MaxTime == 2
\* the largest max_length, as a setting and as an argument of generate_text
MaxLength == 4
\* the largest number of tokens the seed text encodes to
MaxSeed == 2
\* target heads: the largest number of classes, batch size and sequence length
MaxTargets == 3
MaxBatch == 2
MaxSeqLen == 2
\* the featurizer: the largest n_embed, context_dim and n_context_embed_per_channel
MaxEmbed == 2
MaxContextDim == 2
MaxContextEmbed == 1
\* sys.maxsize, as the largest number the model checker can hold
sys_maxsize == 2147483647

(***************************************************************************)
(* Values.                                                                 *)
(***************************************************************************)
\* real input examples (strings)
Examples == {"x1", "x2"}
\* the synthetic padding example for string input: self._cached_example = ""
Pad == ""
\* self._cached_example = None
NoExample == "None"
\* Python's None for self._predictions, modelled as the empty sequence
None == <<>>

\* PredictMode keys requested by predict / predict_proba
PredictKeys == {<<"NORMAL">>, <<"PROBAS">>}
\* the context argument of an inference call: absent or given
Contexts == {"no_context", "context"}

RECURSIVE SeqsUpTo(_, _)
SeqsUpTo(S, n) ==
    IF n = 0 THEN {<<>>}
    ELSE LET shorter == SeqsUpTo(S, n - 1)
         IN  shorter \cup {Append(s, e) : s \in {t \in shorter : Len(t) = n - 1}, e \in S}

Range(s) == {s[i] : i \in 1..Len(s)}

\* the element of a singleton set: The({e(r) : r \in {v}}) is e(v), with v
\* evaluated once
The(S) == CHOOSE v \in S : TRUE

(***************************************************************************)
(* Config: the settings the modelled code reads or writes.                 *)
(***************************************************************************)
\* finetune.config.get_default_config(), restricted to the modelled settings
DefaultConfig ==
    [ n_layer              |-> 2,
      num_layers_trained   |-> 2,
      train_embeddings     |-> TRUE,
      prefit_init          |-> FALSE,
      save_adam_vars       |-> FALSE,
      add_eos_bos_to_chunk |-> TRUE,
      batch_size           |-> 2,
      n_epochs             |-> 1,
      val_size             |-> 0,
      val_interval         |-> 1,
      tasks                |-> <<>>,
      visible_gpus         |-> <<0>>,
      distribution_strategy |-> [type |-> "str", value |-> "mirrored"],
      max_length           |-> 3,
      base_model           |-> "GPTModel" ]

Settings == DOMAIN DefaultConfig

\* BaseModel.validate_config: TRUE when the ValueError is not raised
ValidConfig(c) ==
    ~(c.num_layers_trained # c.n_layer /\ c.train_embeddings)

\* the values of config.distribution_strategy: names, a tf.distribute.Strategy
\* object of the caller, and None
DistributionStrategies ==
    { [type |-> "str", value |-> v]
      : v \in {"mirrored", "Mirrored", "central_storage", "central-storage", "horovod"} }
    \cup { [type |-> "Strategy", value |-> "caller's strategy"],
           [type |-> "None", value |-> ""] }

\* config.visible_gpus: the lists of the first n devices
VisibleGpus == { [i \in 1..n |-> i - 1] : n \in 0..MaxGpus }

\* config.tasks: None, or the tasks, each given by the size of the validation
\* set the input pipeline holds out for it
Tasks == { <<>>, << <<0, 0>> >>, << <<1, 0>> >>, << <<1, 1>> >> }

\* configs for training that vary the devices and the strategy, the step
\* arithmetic, and the validation set
SetupConfigs ==
    { [DefaultConfig EXCEPT !.visible_gpus = g, !.distribution_strategy = d]
      : g \in VisibleGpus, d \in DistributionStrategies }
    \cup
    { [DefaultConfig EXCEPT !.batch_size = b, !.n_epochs = e, !.visible_gpus = g,
                            !.prefit_init = pf]
      : b \in 1..MaxBatchSize, e \in 1..MaxEpochs, g \in VisibleGpus, pf \in BOOLEAN }
    \cup
    { [DefaultConfig EXCEPT !.val_size = v, !.val_interval = 2, !.tasks = t]
      : v \in 0..1, t \in Tasks }

\* configs that __init__ accepts: defaults overridden by kwargs, then validated
ConstructorConfigs ==
    { c \in { [DefaultConfig EXCEPT !.num_layers_trained = nlt,
                                    !.train_embeddings = te,
                                    !.prefit_init = pf,
                                    !.save_adam_vars = sa]
              : nlt \in {0, 2}, te \in BOOLEAN, pf \in BOOLEAN, sa \in BOOLEAN }
      : /\ ValidConfig(c)
        /\ c.save_adam_vars => c = [DefaultConfig EXCEPT !.save_adam_vars = TRUE] }

(***************************************************************************)
(* The weight store's variable names, with the substring tests the code    *)
(* applies to them.                                                        *)
(***************************************************************************)
GraphVariables ==
    { "model/featurizer/h0/w", "model/target/w", "model/target/b",
      "model/featurizer/h0/w/Adam", "global_step" }

\* "Adam" in k
HasAdam(k) == k \in {"model/featurizer/h0/w/Adam"}
\* "adam" in k  (lower case: no graph variable carries it)
HasLowerAdam(k) == k \in {}
\* "global_step" in k
HasGlobalStep(k) == k \in {"global_step"}
\* "featurizer" in k
HasFeaturizer(k) == k \in {"model/featurizer/h0/w", "model/featurizer/h0/w/Adam"}
\* k.startswith("model/target/")
IsTarget(k) == k \in {"model/target/w", "model/target/b"}
\* len(w.shape) == 1
IsVector(k) == k \in {"model/target/b", "global_step"}

Restrict(f, D) == [k \in D |-> f[k]]
EmptyMap == [k \in {} |-> 0]

(***************************************************************************)
(* State.                                                                  *)
(***************************************************************************)
VARIABLES
    config,            \* self.config
    input_pipeline,    \* self.input_pipeline
    _trained,          \* self._trained
    saver_variables,   \* self.saver.variables
    _predictions,      \* self._predictions: None or <<stream>>
    _cached_predict,   \* self._cached_predict
    _closed,           \* self._closed
    _to_pull,          \* self._to_pull
    _data,             \* self._data
    _cached_example,   \* self._cached_example
    pc,                \* position inside a running finetune call, or "idle"
    ft,                \* locals of the running finetune call and its event log
    inScope,           \* the caller is inside a `with model.cached_predict()` block
    disk,              \* the artifact stored at the save path: <<>> or <<artifact>>
    last,              \* the last completed operation with its arguments and outcome
    chunker,           \* process_long_sequence: its locals and what it has yielded
    model_dir,         \* the base-model filestore and the clock
    gen,               \* generate_text: its locals
    graph              \* a block of the graph: its inputs and, once built, its outputs

vars == << config, input_pipeline, _trained, saver_variables, _predictions,
           _cached_predict, _closed, _to_pull, _data, _cached_example,
           pc, ft, inScope, disk, last, chunker, model_dir, gen, graph >>

cacheVars == << _predictions, _cached_predict, _closed, _to_pull, _data, _cached_example >>
modelVars == << config, input_pipeline, _trained, saver_variables >>

\* the record kept of the last operation
LastOp(op) ==
    [ op |-> op, Xs |-> <<>>, keys |-> <<>>, ctx |-> "no_context",
      out |-> <<>>, err |-> "none", built |-> 0, drained |-> <<>>,
      trained |-> FALSE, log |-> <<>>, args |-> <<>>, overrides |-> EmptyMap,
      runs |-> <<>>, before |-> <<>> ]

NoFinetune ==
    [ log |-> <<>>, num_layers_trained |-> 0, args |-> <<>>, runs |-> <<>>,
      before |-> <<>>,
      batch_size |-> 0, val_size |-> <<>>, val_interval |-> <<>>, dataset_size |-> 0,
      resolved_gpus |-> <<>>, distribute_strategy |-> "", steps_per_epoch |-> 0,
      num_steps |-> 0,
      train_hooks |-> <<>>, early_stopping_interval |-> 0 ]
\* the filestore holds no base model of the requested name; time.time() is 1
EmptyModelDir == [ files |-> EmptyMap, time |-> 1 ]
NoGeneration ==
    [ token_ids |-> <<>>, seed_len |-> 0, max_length |-> <<>>, config_max_length |-> 0,
      i |-> 0, stop |-> 0, steps |-> 0, finished |-> FALSE, done |-> FALSE ]
NoGraph == [ block |-> "none", inputs |-> <<>>, outputs |-> <<>> ]
NoChunker == [ docs |-> <<>>, flat_array_encoded |-> <<>>, sequence_id |-> <<>>,
               labels |-> 0, yielded |-> <<>> ]

(***************************************************************************)
(* The prediction stream of cached inference.  estimator.predict over the  *)
(* input function built from self._data_generator is a lazy iterator: it   *)
(* builds the graph at the first next(), pulls BatchSize examples from the *)
(* data generator whenever its buffer of predictions is empty, and yields  *)
(* the predictions of that batch one by one.                               *)
(*                                                                         *)
(* The operators below work on a record m of the fields they read and      *)
(* write: stream (self._predictions), data, to_pull, cached_example,       *)
(* closed, trained.                                                        *)
(***************************************************************************)
Machine ==
    [ stream |-> _predictions, data |-> _data, to_pull |-> _to_pull,
      cached_example |-> _cached_example, closed |-> _closed, trained |-> _trained ]

\* estimator.predict(input_fn, predict_keys, hooks): nothing runs until next()
NewStream(predict_keys) ==
    [ keys |-> predict_keys, buf |-> <<>>, started |-> FALSE, live |-> TRUE ]

\* the model's output for one example: a dict over the keys the stream was
\* built with; context is the context the input function was built with
Prediction(example, predict_keys, context) ==
    [ ex |-> example, keys |-> Range(predict_keys), ctx |-> context ]

\* pred[predict_keys[0]] if len(predict_keys) == 1 else pred
SelectKeys(y, predict_keys) ==
    IF Len(predict_keys) = 1 THEN [y EXCEPT !.keys = {predict_keys[1]}] ELSE y

\* one resumption of BaseModel._data_generator: the example it yields, or
\* nothing when the generator returns
DataGeneratorResume(m) ==
    LET m0 == IF m.stream[1].started THEN m
              ELSE [m EXCEPT !.stream[1].started = TRUE,
                             !.cached_example = NoExample,
                             !.to_pull = 0]
    IN  IF m0.closed THEN [m |-> m0, yield |-> <<>>]
        ELSE IF m0.data # <<>>
        THEN [ m |-> [m0 EXCEPT !.data = Tail(@), !.cached_example = Pad],
               yield |-> <<Head(m0.data)>> ]
        ELSE [ m |-> [m0 EXCEPT !.to_pull = @ + 1],
               yield |-> <<m0.cached_example>> ]

\* the input function fills one batch of k examples from the generator; the
\* batch is short only when the generator returns
RECURSIVE PullBatch(_, _, _)
PullBatch(m, k, batch) ==
    IF k = 0 THEN [m |-> m, batch |-> batch]
    ELSE The({ IF r.yield = <<>> THEN [m |-> r.m, batch |-> batch]
               ELSE PullBatch(r.m, k - 1, batch \o r.yield)
               : r \in {DataGeneratorResume(m)} })

\* next(self._predictions)
NextPrediction(m) ==
    LET s == m.stream[1]
    IN  IF ~s.live
        THEN [m |-> m, y |-> <<>>, err |-> "StopIteration"]
        ELSE IF s.buf # <<>>
        THEN [ m |-> [m EXCEPT !.stream[1].buf = Tail(@)],
               y |-> <<Prediction(Head(s.buf), s.keys, "no_context")>>,
               err |-> "none" ]
        ELSE IF ~s.started /\ ~m.trained
        THEN \* the graph of a model that has not been fit cannot serve the keys
             [m |-> [m EXCEPT !.stream[1].live = FALSE], y |-> <<>>, err |-> "ValueError"]
        ELSE The({ IF r.batch = <<>>
                   THEN [ m |-> [r.m EXCEPT !.stream[1].live = FALSE],
                          y |-> <<>>, err |-> "StopIteration" ]
                   ELSE [ m |-> [r.m EXCEPT !.stream[1].buf = Tail(r.batch)],
                          y |-> <<Prediction(Head(r.batch), s.keys, "no_context")>>,
                          err |-> "none" ]
                   : r \in {PullBatch(m, BatchSize, <<>>)} })

\* the loop of BaseModel._clear_prediction_queue: k times next()
RECURSIVE DrainQueue(_, _, _)
DrainQueue(m, k, drained) ==
    IF k = 0 THEN [m |-> m, drained |-> drained, err |-> "none"]
    ELSE The({ IF r.err # "none" THEN [m |-> r.m, drained |-> drained, err |-> r.err]
               ELSE DrainQueue(r.m, k - 1, Append(drained, r.y[1].ex))
               : r \in {NextPrediction(m)} })

\* BaseModel._clear_prediction_queue
_clear_prediction_queue(m) ==
    The({ IF r.err # "none" THEN r ELSE [r EXCEPT !.m.to_pull = 0]
          : r \in {DrainQueue(m, m.to_pull, <<>>)} })

\* the read loop of BaseModel._cached_inference (lines 436-445): next() is
\* outside the try block, which guards the key lookup only
RECURSIVE ReadPredictions(_, _, _, _)
ReadPredictions(m, predict_keys, n, predictions) ==
    IF n = 0 THEN [m |-> m, out |-> predictions, err |-> "none"]
    ELSE The({ IF r.err # "none" THEN [m |-> r.m, out |-> <<>>, err |-> r.err]
               ELSE IF Len(predict_keys) = 1 /\ predict_keys[1] \notin r.y[1].keys
               THEN [m |-> r.m, out |-> <<>>, err |-> "KeyError"]
               ELSE ReadPredictions(r.m, predict_keys, n - 1,
                                    Append(predictions, SelectKeys(r.y[1], predict_keys)))
               : r \in {NextPrediction(m)} })

\* BaseModel._cached_inference(Xs, predict_keys), n_examples = None
_cached_inference_AlwaysBuild(m, Xs, predict_keys) ==
    The({ IF c.err # "none"
          THEN [m |-> c.m, out |-> <<>>, err |-> c.err, built |-> 1, drained |-> c.drained]
          ELSE The({ [m |-> r.m, out |-> r.out, err |-> r.err, built |-> 1,
                      drained |-> c.drained]
                     : r \in {ReadPredictions(c.m, predict_keys, Len(Xs), <<>>)} })
          : c \in {_clear_prediction_queue(
                      [m EXCEPT !.data = Xs, !.closed = FALSE,
                                !.stream = <<NewStream(predict_keys)>>])} })

_cached_inference(m, Xs, predict_keys) ==
    LET build == m.stream = None
        b  == IF build THEN 1 ELSE 0
        m0 == [m EXCEPT !.data = Xs, !.closed = FALSE]
        m1 == IF build THEN [m0 EXCEPT !.stream = <<NewStream(predict_keys)>>] ELSE m0
    IN  The({ IF c.err # "none"
              THEN [m |-> c.m, out |-> <<>>, err |-> c.err, built |-> b,
                    drained |-> c.drained]
              ELSE The({ [m |-> r.m, out |-> r.out, err |-> r.err, built |-> b,
                          drained |-> c.drained]
                         : r \in {ReadPredictions(c.m, predict_keys, Len(Xs), <<>>)} })
              : c \in {_clear_prediction_queue(m1)} })

\* the uncached branch of BaseModel._inference (lines 457-478): a fresh
\* estimator and stream over exactly Xs; the ValueError of a model that has
\* not been fit is raised inside the try block
UncachedInferenceResult(Xs, predict_keys, context, trained) ==
    IF ~trained
    THEN [out |-> <<>>, err |-> "FinetuneError"]
    ELSE [ out |-> [i \in 1..Len(Xs) |->
                      SelectKeys(Prediction(Xs[i], predict_keys, context), predict_keys)],
           err |-> "none" ]

\* the for loop of BaseModel.close: iterate the stream to exhaustion
RECURSIVE Exhaust(_)
Exhaust(m) ==
    The({ IF r.err = "StopIteration" THEN [m |-> r.m, err |-> "none"]
          ELSE IF r.err # "none" THEN [m |-> r.m, err |-> r.err]
          ELSE Exhaust(r.m)
          : r \in {NextPrediction(m)} })

\* BaseModel.close: only AttributeError is caught, any other error of the
\* stream leaves before self._predictions = None
close(m) ==
    IF m.stream = None THEN [m |-> [m EXCEPT !.closed = TRUE], err |-> "none"]
    ELSE The({ IF r.err # "none" THEN r
               ELSE [m |-> [r.m EXCEPT !.stream = None], err |-> "none"]
               : r \in {Exhaust([m EXCEPT !.closed = TRUE])} })

\* write the fields of m back to the instance
StoreMachine(m) ==
    /\ _predictions' = m.stream
    /\ _data' = m.data
    /\ _to_pull' = m.to_pull
    /\ _cached_example' = m.cached_example
    /\ _closed' = m.closed

(***************************************************************************)
(* Inference calls and the cached_predict scope.                           *)
(***************************************************************************)
\* BaseModel._inference inside cached mode
CachedInference ==
    /\ pc = "idle"
    /\ _cached_predict
    /\ \E Xs \in SeqsUpTo(Examples, MaxExamples), predict_keys \in PredictKeys,
          context \in Contexts :
         \E r \in {_cached_inference(Machine, Xs, predict_keys)} :
             /\ StoreMachine(r.m)
             /\ last' = [LastOp("cached") EXCEPT
                            !.Xs = Xs, !.keys = predict_keys, !.ctx = context,
                            !.out = r.out, !.err = r.err, !.built = r.built,
                            !.drained = r.drained, !.trained = _trained]
    /\ UNCHANGED << modelVars, _cached_predict, pc, ft, inScope, disk, chunker, model_dir, gen, graph >>

\* BaseModel._inference outside cached mode
UncachedInference ==
    /\ pc = "idle"
    /\ ~_cached_predict
    /\ \E Xs \in SeqsUpTo(Examples, MaxExamples), predict_keys \in PredictKeys,
          context \in Contexts :
         \E r \in {UncachedInferenceResult(Xs, predict_keys, context, _trained)} :
             last' = [LastOp("uncached") EXCEPT
                         !.Xs = Xs, !.keys = predict_keys, !.ctx = context,
                         !.out = r.out, !.err = r.err, !.built = 1,
                         !.trained = _trained]
    /\ UNCHANGED << modelVars, cacheVars, pc, ft, inScope, disk, chunker, model_dir, gen, graph >>

\* BaseModel.cached_predict up to its yield
EnterScope ==
    /\ pc = "idle"
    /\ ~inScope
    /\ _cached_predict' = TRUE
    /\ inScope' = TRUE
    /\ last' = LastOp("enter")
    /\ UNCHANGED << modelVars, _predictions, _closed, _to_pull, _data, _cached_example,
                    pc, ft, disk, chunker, model_dir, gen, graph >>

\* BaseModel.cached_predict after its yield: the with-body completed
ExitScope ==
    /\ pc = "idle"
    /\ inScope
    /\ \E r \in {close(Machine)} :
           /\ StoreMachine(r.m)
           /\ last' = [LastOp("exit") EXCEPT !.err = r.err]
    /\ _cached_predict' = FALSE
    /\ inScope' = FALSE
    /\ UNCHANGED << modelVars, pc, ft, disk, chunker, model_dir, gen, graph >>

\* the with-body raised: contextlib throws the exception into the generator
\* at its yield, which has no try / finally, so nothing after it runs
ScopeBodyRaises ==
    /\ pc = "idle"
    /\ inScope
    /\ inScope' = FALSE
    /\ last' = [LastOp("exit_raise") EXCEPT !.err = "Exception"]
    /\ UNCHANGED << modelVars, cacheVars, pc, ft, disk, chunker, model_dir, gen, graph >>

\* an explicit call of BaseModel.close
Close ==
    /\ pc = "idle"
    /\ \E r \in {close(Machine)} :
           /\ StoreMachine(r.m)
           /\ last' = [LastOp("close") EXCEPT !.err = r.err]
    /\ UNCHANGED << modelVars, _cached_predict, pc, ft, inScope, disk, chunker, model_dir, gen, graph >>

(***************************************************************************)
(* BaseModel.attention_weights and BaseModel.context_attention_weights.    *)
(***************************************************************************)
\* self.config.base_model in [GPTModel, GPTModelSmall]
ExposesAttention_AnyBaseModel(c) == TRUE

ExposesAttention(c) == c.base_model \in {"GPTModel", "GPTModelSmall"}

\* the context argument: None, an empty list, or a context per example
ContextArgs == {"None", "empty", "context"}

\* not context
Falsy(context) == context \in {"None", "empty"}

\* BaseModel._inference(Xs, predict_keys, context) called by operation op
Inference(op, call, Xs, predict_keys, context) ==
    IF _cached_predict
    THEN \E r \in {_cached_inference(Machine, Xs, predict_keys)} :
             /\ StoreMachine(r.m)
             /\ last' = [LastOp(op) EXCEPT
                            !.Xs = Xs, !.keys = predict_keys, !.ctx = context,
                            !.out = r.out, !.err = r.err, !.built = r.built,
                            !.drained = r.drained, !.trained = _trained,
                            !.args = <<call>>]
    ELSE \E r \in {UncachedInferenceResult(Xs, predict_keys, context, _trained)} :
             /\ last' = [LastOp(op) EXCEPT
                            !.Xs = Xs, !.keys = predict_keys, !.ctx = context,
                            !.out = r.out, !.err = r.err, !.built = 1,
                            !.trained = _trained, !.args = <<call>>]
             /\ UNCHANGED << _predictions, _closed, _to_pull, _data, _cached_example >>

\* BaseModel.attention_weights(Xs)
AttentionWeights ==
    /\ pc = "idle"
    /\ \E Xs \in SeqsUpTo(Examples, MaxExamples) :
         LET call == [base_model |-> config.base_model]
         IN  IF ExposesAttention(config)
             THEN Inference("attention_weights", call, Xs, <<"ATTENTION">>, "no_context")
             ELSE /\ last' = [LastOp("attention_weights") EXCEPT
                                 !.Xs = Xs, !.err = "NotImplementedError",
                                 !.args = <<call>>]
                  /\ UNCHANGED << _predictions, _closed, _to_pull, _data, _cached_example >>
    /\ UNCHANGED << modelVars, _cached_predict, pc, ft, inScope, disk, chunker, model_dir, gen, graph >>

\* BaseModel.context_attention_weights(Xs, context)
ContextAttentionWeights ==
    /\ pc = "idle"
    /\ \E Xs \in SeqsUpTo(Examples, MaxExamples), context \in ContextArgs :
         LET call == [context |-> context]
         IN  IF Falsy(context)
             THEN /\ last' = [LastOp("context_attention_weights") EXCEPT
                                 !.Xs = Xs, !.err = "ValueError", !.args = <<call>>]
                  /\ UNCHANGED << _predictions, _closed, _to_pull, _data, _cached_example >>
             ELSE Inference("context_attention_weights", call, Xs,
                            <<"CONTEXT_ATTENTION">>, "context")
    /\ UNCHANGED << modelVars, _cached_predict, pc, ft, inScope, disk, chunker, model_dir, gen, graph >>

(***************************************************************************)
(* BaseModel.finetune, step by step.  A training run is one step of its    *)
(* own, so that the state during the run is a state of the model.          *)
(***************************************************************************)
\* the arguments of a finetune call: Xs is callable or sized, Y is None or
\* sized, batch_size is falsy (omitted, None or 0: written 0) or a positive number
FinetuneArgs ==
    { [xs_callable |-> xc, xs_len |-> xl, y_none |-> yn, y_len |-> yl, batch_size |-> 0]
      : xc \in BOOLEAN, xl \in 1..MaxExamples, yn \in BOOLEAN, yl \in 1..MaxExamples }
    \cup
    { [xs_callable |-> FALSE, xs_len |-> xl, y_none |-> FALSE, y_len |-> xl, batch_size |-> b]
      : xl \in 1..MaxExamples, b \in 1..MaxBatchArg }

\* not callable(Xs) and Y is not None and len(Xs) != len(Y)
LengthMismatch_IgnoreLengths(a) == FALSE

LengthMismatch(a) ==
    ~a.xs_callable /\ ~a.y_none /\ a.xs_len # a.y_len

\* what estimator.train leaves in the weight store through the saver hook:
\* every variable of the graph, optimizer slots and step count included
TrainedVariables(phase) == [k \in GraphVariables |-> phase]

\* lines 250-254: the dict comprehension that strips the weight store
StripOptimizerState(variables) ==
    Restrict(variables, {k \in DOMAIN variables : ~HasLowerAdam(k) /\ ~HasGlobalStep(k)})

\* lines 255-271: every target weight that is not a vector is rescaled
RescaleTargetWeights(variables) ==
    [k \in DOMAIN variables |->
        IF IsTarget(k) /\ ~IsVector(k) THEN "prefit_rescaled" ELSE variables[k]]

\* str.lower() on the strategy names the model draws from
Lower(name) ==
    IF name = "Mirrored" THEN "mirrored"
    ELSE IF name = "CENTRAL_STORAGE" THEN "central_storage"
    ELSE name

\* all_gpus(visible_gpus=tuple(visible_gpus)): the listed devices resolve
all_gpus(visible_gpus) == visible_gpus

\* BaseModel._distribute_strategy, lines 278-309: the strategy returned or the
\* error raised; set is TRUE when line 308 has stored resolved_gpus.  The raise
\* of line 303 comes before line 308; a strategy that is neither a name nor a
\* Strategy object leaves the local unbound, which the return of line 309 finds
\* after line 308 has run.
_distribute_strategy_ByNameOnly(c) ==
    LET resolved_gpus == all_gpus(c.visible_gpus)
        name == Lower(c.distribution_strategy.value)
        returns(st) == [ err |-> "none", strategy |-> st, set |-> TRUE,
                         resolved_gpus |-> resolved_gpus ]
        raises(e) == [ err |-> e, strategy |-> "", set |-> FALSE, resolved_gpus |-> <<>> ]
        unbound == [ err |-> "UnboundLocalError", strategy |-> "", set |-> TRUE,
                     resolved_gpus |-> resolved_gpus ]
    IN  IF c.distribution_strategy.type = "str"
        THEN IF name = "mirrored" THEN returns("MirroredStrategy")
             ELSE IF name = "central_storage" THEN returns("CentralStorageStrategy")
             ELSE raises("FinetuneError")
        ELSE IF c.distribution_strategy.type = "Strategy"
             THEN returns(c.distribution_strategy.value)
        ELSE unbound

_distribute_strategy(c) ==
    LET resolved_gpus == all_gpus(c.visible_gpus)
        name == Lower(c.distribution_strategy.value)
        returns(st) == [ err |-> "none", strategy |-> st, set |-> TRUE,
                         resolved_gpus |-> resolved_gpus ]
        raises(e) == [ err |-> e, strategy |-> "", set |-> FALSE, resolved_gpus |-> <<>> ]
        unbound == [ err |-> "UnboundLocalError", strategy |-> "", set |-> TRUE,
                     resolved_gpus |-> resolved_gpus ]
    IN  IF Len(resolved_gpus) = 1 THEN returns("OneDeviceStrategy")
        ELSE IF c.distribution_strategy.type = "str"
             THEN IF name = "mirrored" THEN returns("MirroredStrategy")
                  ELSE IF name = "central_storage" THEN returns("CentralStorageStrategy")
                  ELSE raises("FinetuneError")
        ELSE IF c.distribution_strategy.type = "Strategy"
             THEN returns(c.distribution_strategy.value)
        ELSE unbound

\* math.ceil(a / b) for a >= 0 and b > 0
Ceil(a, b) == (a + b - 1) \div b

\* BaseModel._n_steps, lines 149-151
_n_steps_Floor(n_examples, batch_size, n_gpus) == n_examples \div (batch_size * n_gpus)

_n_steps(n_examples, batch_size, n_gpus) == Ceil(n_examples, batch_size * n_gpus)

Max(a, b) == IF a >= b THEN a ELSE b

\* input_pipeline.get_train_input_fns(Xs, Y, batch_size, context): the
\* validation sizes and intervals it returns (one per task with config.tasks,
\* else one) and the dataset size it leaves in input_pipeline.dataset_size
get_train_input_fns(a, c) ==
    IF c.tasks # None
    THEN [ val_size |-> c.tasks[1],
           val_interval |-> [t \in 1..Len(c.tasks[1]) |-> c.val_interval],
           dataset_size |-> a.xs_len ]
    ELSE LET v == IF c.val_size < a.xs_len THEN c.val_size ELSE 0
         IN  [ val_size |-> <<v>>, val_interval |-> <<c.val_interval>>,
               dataset_size |-> a.xs_len - v ]

Hook(kind, task, every_n_iter, steps) ==
    [ hook |-> kind, task |-> task, every_n_iter |-> every_n_iter, steps |-> steps ]

\* lines 193-212: two evaluation hooks for every task with a validation set
RECURSIVE TaskHooks(_, _, _, _)
TaskHooks(val_size, val_interval, batch_size, task) ==
    IF task > Len(val_size) THEN <<>>
    ELSE (IF val_size[task] > 0
          THEN << Hook("InMemoryEvaluatorHook", task, val_interval[task],
                       val_size[task] \div batch_size),
                  Hook("InMemoryEvaluatorHook_train", task, val_interval[task],
                       val_size[task] \div batch_size) >>
          ELSE <<>>)
         \o TaskHooks(val_size, val_interval, batch_size, task + 1)

\* lines 213-226: the interval handed on as eval_frequency
early_stopping_interval_ValidationOnly(c, val_size, val_interval) ==
    IF c.tasks = None /\ val_size[1] > 0 THEN val_interval[1]
    ELSE IF c.tasks # None /\ \E t \in 1..Len(val_size) : val_size[t] > 0
    THEN val_interval[1]
    ELSE sys_maxsize

early_stopping_interval(c, val_size, val_interval) ==
    IF c.tasks # None THEN sys_maxsize
    ELSE IF val_size[1] > 0 THEN val_interval[1]
    ELSE sys_maxsize

\* lines 165-237 of finetune: the locals it has computed when the hooks are
\* assembled, or the error the estimator's construction raised
FinetuneSetup(a, c) ==
    LET batch_size == IF a.batch_size # 0 THEN a.batch_size ELSE c.batch_size
        fns == get_train_input_fns(a, c)
        strategy == _distribute_strategy(c)
        steps_per_epoch == _n_steps(fns.dataset_size, batch_size,
                                    Max(1, Len(strategy.resolved_gpus)))
        interval == early_stopping_interval(c, fns.val_size, fns.val_interval)
    IN  [ err |-> strategy.err,
          batch_size |-> batch_size,
          val_size |-> fns.val_size,
          val_interval |-> fns.val_interval,
          dataset_size |-> fns.dataset_size,
          resolved_gpus |-> strategy.resolved_gpus,
          distribute_strategy |-> strategy.strategy,
          steps_per_epoch |-> steps_per_epoch,
          num_steps |-> steps_per_epoch * c.n_epochs,
          early_stopping_interval |-> interval,
          train_hooks |->
              << Hook("InitializeHook", 0, 0, 0) >>
              \o (IF c.tasks # None
                  THEN TaskHooks(fns.val_size, fns.val_interval, batch_size, 1)
                  ELSE IF fns.val_size[1] > 0
                  THEN << Hook("InMemoryEvaluatorHook", 0, fns.val_interval[1],
                               Ceil(fns.val_size[1], batch_size)) >>
                  ELSE <<>>)
              \o << Hook("SaverHook", 0, interval, steps_per_epoch) >> ]

\* one estimator.train(train_input_fn, hooks=train_hooks, steps=num_steps)
TrainRun == [ num_layers_trained |-> config.num_layers_trained, steps |-> ft.num_steps ]

\* a finetune call has ended: by returning (err = "none") or by raising
FinetuneEnds(err, log, runs) ==
    /\ pc' = "idle"
    /\ ft' = NoFinetune
    /\ last' = [LastOp("finetune") EXCEPT !.err = err, !.log = log, !.runs = runs,
                                          !.before = ft.before]

\* lines 153-163: the call and its length check
FinetuneCall ==
    /\ pc = "idle"
    /\ \E a \in FinetuneArgs :
         IF LengthMismatch(a)
         THEN /\ last' = [LastOp("finetune") EXCEPT !.err = "FinetuneError", !.args = <<a>>]
              /\ UNCHANGED << pc, ft >>
         ELSE /\ pc' = "ft_setup"
              /\ ft' = [NoFinetune EXCEPT !.args = <<a>>,
                                          !.before = <<config.num_layers_trained>>]
              /\ UNCHANGED last
    /\ UNCHANGED << modelVars, cacheVars, inScope, disk, chunker, model_dir, gen, graph >>

\* lines 165-240: the input functions are requested (which fits the input
\* pipeline), the estimator is built and the hooks are assembled; the input
\* pipeline or the estimator construction may raise
FtSetup ==
    /\ pc = "ft_setup"
    /\ \/ /\ FinetuneEnds("ValueError", ft.log, <<>>)
          /\ UNCHANGED input_pipeline
       \/ /\ FinetuneEnds("SetupError", Append(ft.log, "input_fns"), <<>>)
          /\ input_pipeline' = [input_pipeline EXCEPT !.fitted = TRUE]
       \/ /\ \E s \in {FinetuneSetup(ft.args[1], config)} :
                IF s.err # "none"
                THEN FinetuneEnds(s.err, Append(ft.log, "input_fns"), <<>>)
                ELSE /\ pc' = IF config.prefit_init THEN "ft_prefit" ELSE "ft_main"
                     /\ ft' = [ft EXCEPT !.log = ft.log \o <<"input_fns", "estimator">>,
                                         !.batch_size = s.batch_size,
                                         !.val_size = s.val_size,
                                         !.val_interval = s.val_interval,
                                         !.dataset_size = s.dataset_size,
                                         !.resolved_gpus = s.resolved_gpus,
                                         !.distribute_strategy = s.distribute_strategy,
                                         !.steps_per_epoch = s.steps_per_epoch,
                                         !.num_steps = s.num_steps,
                                         !.train_hooks = s.train_hooks,
                                         !.early_stopping_interval =
                                             s.early_stopping_interval]
                     /\ UNCHANGED last
          /\ input_pipeline' = [input_pipeline EXCEPT !.fitted = TRUE]
    /\ UNCHANGED << config, _trained, saver_variables, cacheVars, inScope, disk, chunker, model_dir, gen, graph >>

\* lines 244-247: the prefit run is about to start with no layer trained
FtPrefitBegin ==
    /\ pc = "ft_prefit"
    /\ ft' = [ft EXCEPT !.num_layers_trained = config.num_layers_trained]
    /\ config' = [config EXCEPT !.num_layers_trained = 0]
    /\ pc' = "ft_prefit_run"
    /\ UNCHANGED << input_pipeline, _trained, saver_variables, cacheVars,
                    inScope, disk, last, chunker, model_dir, gen, graph >>

\* lines 248-273: the prefit run returns, the setting is restored and the
\* weight store stripped and rescaled; or the run raises and finetune is left
FtPrefitTrain_NoRestore ==
    /\ pc = "ft_prefit_run"
    /\ \/ /\ saver_variables' =
                 RescaleTargetWeights(StripOptimizerState(TrainedVariables("prefit")))
          /\ ft' = [ft EXCEPT !.log = ft.log \o <<"train", "strip", "rescale">>,
                              !.runs = Append(ft.runs, TrainRun)]
          /\ pc' = "ft_main"
          /\ UNCHANGED << last, config >>
       \/ /\ FinetuneEnds("TrainError", ft.log, ft.runs)
          /\ UNCHANGED << config, saver_variables >>
    /\ UNCHANGED << input_pipeline, _trained, cacheVars, inScope, disk, chunker, model_dir, gen, graph >>

FtPrefitTrain ==
    /\ pc = "ft_prefit_run"
    /\ \/ /\ config' = [config EXCEPT !.num_layers_trained = ft.num_layers_trained]
          /\ saver_variables' =
                 RescaleTargetWeights(StripOptimizerState(TrainedVariables("prefit")))
          /\ ft' = [ft EXCEPT !.log = ft.log \o <<"train", "strip", "rescale">>,
                              !.runs = Append(ft.runs, TrainRun)]
          /\ pc' = "ft_main"
          /\ UNCHANGED last
       \/ /\ FinetuneEnds("TrainError", ft.log, ft.runs)
          /\ UNCHANGED << config, saver_variables >>
    /\ UNCHANGED << input_pipeline, _trained, cacheVars, inScope, disk, chunker, model_dir, gen, graph >>

\* lines 274-276: the main run; self._trained = True follows its return
FtMainTrain_MarkOnFailure ==
    /\ pc = "ft_main"
    /\ \/ /\ saver_variables' = TrainedVariables("tuned")
          /\ FinetuneEnds("none", Append(ft.log, "train"), Append(ft.runs, TrainRun))
       \/ /\ FinetuneEnds("TrainError", ft.log, ft.runs)
          /\ UNCHANGED saver_variables
    /\ _trained' = TRUE
    /\ UNCHANGED << config, input_pipeline, cacheVars, inScope, disk, chunker, model_dir, gen, graph >>

FtMainTrain ==
    /\ pc = "ft_main"
    /\ \/ /\ saver_variables' = TrainedVariables("tuned")
          /\ _trained' = TRUE
          /\ FinetuneEnds("none", Append(ft.log, "train"), Append(ft.runs, TrainRun))
       \/ /\ FinetuneEnds("TrainError", ft.log, ft.runs)
          /\ UNCHANGED << saver_variables, _trained >>
    /\ UNCHANGED << config, input_pipeline, cacheVars, inScope, disk, chunker, model_dir, gen, graph >>

(***************************************************************************)
(* Save and load.                                                          *)
(***************************************************************************)
\* BaseModel.__getstate__: the fields of the instance that are pickled
__getstate__ ==
    [ config |-> config, input_pipeline |-> input_pipeline, _trained |-> _trained ]

\* Saver.save: the weight-store entries not matched by exclude_matches
\* (line 117: None if config.save_adam_vars else "Adam")
SavedVariables(variables, save_adam_vars) ==
    Restrict(variables, {k \in DOMAIN variables : save_adam_vars \/ ~HasAdam(k)})

\* the artifact written for the instance; source records the instance it was
\* written from
Artifact ==
    [ state |-> __getstate__,
      variables |-> SavedVariables(saver_variables, config.save_adam_vars),
      source |-> [ by |-> "save", config |-> config, input_pipeline |-> input_pipeline,
                   variables |-> saver_variables, _trained |-> _trained ] ]

\* BaseModel.save(path): save(None) returns at once
Save ==
    /\ pc = "idle"
    /\ \E path \in {"None", "path"} :
         /\ disk' = IF path = "None" THEN disk ELSE <<Artifact>>
         /\ last' = [LastOp("save") EXCEPT !.args = <<path>>]
    /\ UNCHANGED << modelVars, cacheVars, pc, ft, inScope, chunker, model_dir, gen, graph >>

\* lines 700-705: settings absent from the saved config get their default,
\* add_eos_bos_to_chunk gets False
InjectDefaults_OverSaved(saved) ==
    [s \in DOMAIN saved \cup Settings |->
        IF s = "add_eos_bos_to_chunk" /\ s \notin DOMAIN saved THEN FALSE
        ELSE IF s \in Settings THEN DefaultConfig[s]
        ELSE saved[s]]

InjectDefaults(saved) ==
    [s \in DOMAIN saved \cup Settings |->
        IF s \in DOMAIN saved THEN saved[s]
        ELSE IF s = "add_eos_bos_to_chunk" THEN FALSE
        ELSE DefaultConfig[s]]

\* config.update(kwargs)
UpdateConfig(c, kwargs) ==
    [s \in DOMAIN c \cup DOMAIN kwargs |-> IF s \in DOMAIN kwargs THEN kwargs[s] ELSE c[s]]

\* the keyword overrides handed to load, each accepted by assert_valid_config
LoadOverrides ==
    { EmptyMap,
      [s \in {"prefit_init"} |-> TRUE],
      [s \in {"add_eos_bos_to_chunk", "train_embeddings"} |-> s = "add_eos_bos_to_chunk"] }

\* BaseModel._initialize: the state for prediction caching (lines 95-99)
_initialize(obj) ==
    [obj EXCEPT !._predictions = None, !._cached_predict = FALSE,
                !._closed = FALSE, !._to_pull = 0]

\* BaseModel.load(path, **kwargs), lines 693-714; the instance it returns is
\* the instance the model follows from here on
LoadedInstance_NoVariables(artifact, kwargs) ==
    [ config |-> UpdateConfig(InjectDefaults(artifact.state.config), kwargs),
      input_pipeline |-> [artifact.state.input_pipeline EXCEPT !.config = "self.config"],
      variables |-> EmptyMap,
      _trained |-> TRUE ]

LoadedInstance(artifact, kwargs) ==
    [ config |-> UpdateConfig(InjectDefaults(artifact.state.config), kwargs),
      input_pipeline |-> [artifact.state.input_pipeline EXCEPT !.config = "self.config"],
      variables |-> artifact.variables,
      _trained |-> TRUE ]

Load ==
    /\ pc = "idle"
    /\ disk # <<>>
    /\ \E kwargs \in LoadOverrides :
         LET model == LoadedInstance(disk[1], kwargs)
             cache == _initialize([ _predictions |-> _predictions,
                                    _cached_predict |-> _cached_predict,
                                    _closed |-> _closed, _to_pull |-> _to_pull ])
         IN  /\ config' = model.config
             /\ input_pipeline' = model.input_pipeline
             /\ saver_variables' = model.variables
             /\ _trained' = model._trained
             /\ _predictions' = cache._predictions
             /\ _cached_predict' = cache._cached_predict
             /\ _closed' = cache._closed
             /\ _to_pull' = cache._to_pull
             /\ last' = [LastOp("load") EXCEPT !.overrides = kwargs]
    /\ _data' = <<>>
    /\ _cached_example' = NoExample
    /\ inScope' = FALSE
    /\ UNCHANGED << pc, ft, disk, chunker, model_dir, gen, graph >>

\* an artifact written by an earlier release, whose config lacks the settings
\* added since and whose input pipeline holds a config object of its own
LegacyArtifact ==
    [ state |-> [ config |-> [s \in Settings \ {"add_eos_bos_to_chunk", "save_adam_vars"} |->
                                 IF s = "train_embeddings" THEN FALSE
                                 ELSE IF s = "num_layers_trained" THEN 0
                                 ELSE DefaultConfig[s]],
                  input_pipeline |-> [fitted |-> TRUE, config |-> "pickled.config"],
                  _trained |-> TRUE ],
      variables |-> Restrict(TrainedVariables("tuned"),
                             {k \in GraphVariables : ~HasAdam(k)}),
      source |-> [ by |-> "earlier release", config |-> DefaultConfig,
                   input_pipeline |-> [fitted |-> TRUE, config |-> "pickled.config"],
                   variables |-> TrainedVariables("tuned"), _trained |-> TRUE ] ]

\* an artifact written by save() of a trained instance with the default config
DefaultArtifact ==
    [ state |-> [ config |-> DefaultConfig,
                  input_pipeline |-> [fitted |-> TRUE, config |-> "self.config"],
                  _trained |-> TRUE ],
      variables |-> SavedVariables(TrainedVariables("tuned"), FALSE),
      source |-> [ by |-> "save", config |-> DefaultConfig,
                   input_pipeline |-> [fitted |-> TRUE, config |-> "self.config"],
                   variables |-> TrainedVariables("tuned"), _trained |-> TRUE ] ]

(***************************************************************************)
(* BaseModel.process_long_sequence.  A document is given by the number of  *)
(* chunks the text encoder splits it into; a chunk (an element of          *)
(* flat_array_encoded) by its document and its place in the document,      *)
(* which is what its char_locs tell.  Sequences are indexed from 1: the     *)
(* code's chunk_idx is the model's chunk_idx - 1.                           *)
(***************************************************************************)
\* lines 837-842: flat_array_encoded and sequence_id, document by document
RECURSIVE FlattenFrom(_, _)
FlattenFrom(arr_encoded, i) ==
    IF i > Len(arr_encoded) THEN <<>>
    ELSE [k \in 1..arr_encoded[i] |-> [doc |-> i, k |-> k]] \o FlattenFrom(arr_encoded, i + 1)

\* line 857
StartOfDoc_FirstChunkOnly(sequence_id, chunk_idx) == chunk_idx = 1

StartOfDoc(sequence_id, chunk_idx) ==
    chunk_idx = 1 \/ sequence_id[chunk_idx - 1] # sequence_id[chunk_idx]

\* lines 858-861
EndOfDoc(sequence_id, n_chunks, chunk_idx) ==
    chunk_idx = n_chunks \/ sequence_id[chunk_idx] # sequence_id[chunk_idx + 1]

\* lines 833-853: the call up to the first yield; the uncached inference over
\* the documents returns one prediction per chunk.  The locals of a call are
\* its own, so the model follows one generator at a time, to its end.
ProcessLongSequence ==
    /\ pc = "idle"
    /\ ~_cached_predict
    /\ Len(chunker.yielded) = chunker.labels
    /\ \E X \in SeqsUpTo(0..MaxChunks, MaxDocs) :
         LET flat == FlattenFrom(X, 1)
         IN  IF ~_trained
             THEN /\ chunker' = NoChunker
                  /\ last' = [LastOp("process_long_sequence") EXCEPT !.err = "FinetuneError"]
             ELSE /\ chunker' = [ docs |-> X,
                                  flat_array_encoded |-> flat,
                                  sequence_id |-> [c \in 1..Len(flat) |-> flat[c].doc],
                                  labels |-> Len(flat),
                                  yielded |-> <<>> ]
                  /\ last' = [LastOp("process_long_sequence") EXCEPT !.trained = TRUE]
    /\ UNCHANGED << modelVars, cacheVars, pc, ft, inScope, disk, model_dir, gen, graph >>

\* lines 855-862: one turn of the final loop, up to its yield
YieldChunk ==
    /\ pc = "idle"
    /\ Len(chunker.yielded) < chunker.labels
    /\ LET chunk_idx == Len(chunker.yielded) + 1
       IN  chunker' = [chunker EXCEPT !.yielded = Append(@,
               [ position_seq |-> chunker.flat_array_encoded[chunk_idx],
                 start_of_doc |-> StartOfDoc(chunker.sequence_id, chunk_idx),
                 end_of_doc   |-> EndOfDoc(chunker.sequence_id,
                                           Len(chunker.flat_array_encoded), chunk_idx) ])]
    /\ UNCHANGED << modelVars, cacheVars, pc, ft, inScope, disk, last, model_dir, gen, graph >>

(***************************************************************************)
(* BaseModel.create_base_model.  A file of the filestore is named by the   *)
(* requested filename and the timestamp appended to it (0: none).          *)
(***************************************************************************)
\* the filenames callers ask for
Filenames == {"base"}

\* base_model_path + str(int(time.time()))
Stamped(base_model_path, time) == [base_model_path EXCEPT !.stamp = time]

\* lines 657-665: the path the artifact is written to
base_model_path(filename, exists_ok, dir) ==
    LET path == [name |-> filename, stamp |-> 0]
    IN  IF ~exists_ok /\ path \in DOMAIN dir.files THEN Stamped(path, dir.time) ELSE path

\* lines 671-675
weights_stripped_KeepAdam(variables) ==
    Restrict(variables, {k \in DOMAIN variables : HasFeaturizer(k)})

weights_stripped(variables) ==
    Restrict(variables, {k \in DOMAIN variables : HasFeaturizer(k) /\ ~HasAdam(k)})

\* joblib.dump(content, path)
Dump(files, path, content) ==
    [f \in DOMAIN files \cup {path} |-> IF f = path THEN content ELSE files[f]]

\* BaseModel.create_base_model(filename, exists_ok), lines 651-676
CreateBaseModel ==
    /\ pc = "idle"
    /\ \E filename \in Filenames, exists_ok \in BOOLEAN :
         LET path == base_model_path(filename, exists_ok, model_dir)
             warned == IF path.stamp # 0 THEN <<"warning">> ELSE <<>>
             call == [ filename |-> filename, exists_ok |-> exists_ok, path |-> path ]
         IN  IF saver_variables = EmptyMap
             THEN /\ last' = [LastOp("create_base_model") EXCEPT
                                 !.err = "FinetuneError", !.log = warned, !.args = <<call>>]
                  /\ UNCHANGED model_dir
             ELSE /\ model_dir' = [model_dir EXCEPT !.files =
                                      Dump(@, path, weights_stripped(saver_variables))]
                  /\ last' = [LastOp("create_base_model") EXCEPT
                                 !.log = warned, !.args = <<call>>]
    /\ UNCHANGED << modelVars, cacheVars, pc, ft, inScope, disk, chunker, gen, graph >>

\* a second passes
Tick ==
    /\ model_dir.time < MaxTime
    /\ model_dir' = [model_dir EXCEPT !.time = @ + 1]
    /\ UNCHANGED << modelVars, cacheVars, pc, ft, inScope, disk, last, chunker, gen, graph >>

(***************************************************************************)
(* BaseModel.generate_text.  The loop of lines 608-615 is followed turn by *)
(* turn; what the language model emits is the environment's choice.        *)
(***************************************************************************)
\* self.config.use_extra_toks = use_extra_toks
SetSetting(c, setting, value) ==
    [k \in DOMAIN c \cup {setting} |-> IF k = setting THEN value ELSE c[k]]

\* del self.config["use_extra_toks"]
DelSetting(c, setting) == [k \in DOMAIN c \ {setting} |-> c[k]]

\* max_length or self.config.max_length
MaxLengthUsed(max_length, c) ==
    IF max_length # None /\ max_length[1] # 0 THEN max_length[1] ELSE c.max_length

\* text_encoder._encode([seed_text]).token_ids: [] or a list holding the
\* tokens of the seed
EncodedSeeds == { <<>> } \cup { <<t>> : t \in SeqsUpTo({"tok"}, MaxSeed) }

\* the max_length arguments: None or a number
MaxLengthArgs == { None } \cup { <<n>> : n \in 0..MaxLength }

\* lines 566-609: the call up to the first turn of the loop
GenerateText ==
    /\ pc = "idle"
    /\ \E seed \in EncodedSeeds, max_length \in MaxLengthArgs,
          arg \in {"None", "True", "False"} :
         LET use_extra_toks == IF arg = "None" THEN _trained ELSE arg = "True"
             start == IF use_extra_toks THEN <<"start_token">> ELSE <<>>
             token_ids == IF seed # <<>> /\ Len(seed[1]) > 0 THEN start \o seed[1]
                          ELSE start
             call == [ seed |-> seed, max_length |-> max_length, use_extra_toks |-> arg ]
             strategy == _distribute_strategy(config)
         IN  /\ config' = SetSetting(config, "use_extra_toks", use_extra_toks)
             /\ IF seed = <<>> /\ ~use_extra_toks
                THEN /\ last' = [LastOp("generate_text") EXCEPT
                                    !.err = "ValueError", !.args = <<call>>,
                                    !.before = <<config>>]
                     /\ gen' = NoGeneration
                     /\ UNCHANGED pc
                ELSE IF strategy.err # "none"
                THEN /\ last' = [LastOp("generate_text") EXCEPT
                                    !.err = strategy.err, !.args = <<call>>,
                                    !.before = <<config>>]
                     /\ gen' = NoGeneration
                     /\ UNCHANGED pc
                ELSE /\ pc' = "gen_loop"
                     /\ gen' = [ NoGeneration EXCEPT
                                    !.token_ids = token_ids,
                                    !.seed_len = Len(token_ids),
                                    !.max_length = max_length,
                                    !.config_max_length = config.max_length,
                                    !.i = Len(token_ids) - 1,
                                    !.stop = MaxLengthUsed(max_length, config) - 2 ]
                     /\ last' = [LastOp("generate_text") EXCEPT
                                    !.err = "running", !.args = <<call>>,
                                    !.before = <<config>>]
    /\ UNCHANGED << input_pipeline, _trained, saver_variables, cacheVars, ft, inScope,
                    disk, chunker, model_dir, graph >>

\* lines 611-615: one turn of the loop; next(predict) returns a token or raises
GenStep ==
    /\ pc = "gen_loop"
    /\ ~gen.done /\ gen.i < gen.stop
    /\ \/ \E class_idx \in {"tok", "EOS"} :
            /\ gen' = [gen EXCEPT !.token_ids = Append(@, class_idx),
                                  !.steps = @ + 1,
                                  !.i = IF class_idx = "EOS" THEN @ ELSE @ + 1,
                                  !.done = class_idx = "EOS"]
            /\ UNCHANGED << pc, last >>
       \/ /\ pc' = "idle"
          /\ last' = [last EXCEPT !.err = "PredictError", !.out = gen.token_ids]
          /\ UNCHANGED gen
    /\ UNCHANGED << modelVars, cacheVars, ft, inScope, disk, chunker, model_dir, graph >>

\* lines 616-620: the loop is left by break or by the end of its range
GenReturn ==
    /\ pc = "gen_loop"
    /\ gen.done \/ gen.i >= gen.stop
    /\ gen' = [gen EXCEPT !.finished = TRUE]
    /\ config' = DelSetting(config, "use_extra_toks")
    /\ last' = [last EXCEPT !.err = "none", !.out = gen.token_ids]
    /\ pc' = "idle"
    /\ UNCHANGED << input_pipeline, _trained, saver_variables, cacheVars, ft, inScope,
                    disk, chunker, model_dir, graph >>

(***************************************************************************)
(* The target heads of nn/target_blocks.py at graph construction.  A       *)
(* tensor is given by its shape; the shape of a loss computed from targets *)
(* is not followed.  targets is TRUE when targets are passed and FALSE     *)
(* when the head is called with targets = None.                            *)
(***************************************************************************)
Tensor(shape) == [ kind |-> "tensor", shape |-> shape, value |-> 0 ]
Float(v) == [ kind |-> "float", shape |-> <<>>, value |-> v ]
LossTensor == [ kind |-> "tensor", shape |-> <<"loss">>, value |-> 0 ]

\* a head that returned {"logits": logits, "losses": losses}, and one that raised
Returned(logits, losses) == [ logits |-> <<logits>>, losses |-> losses, err |-> "none" ]
Raised(err) == [ logits |-> <<>>, losses |-> <<>>, err |-> err ]

\* python's + and * on the losses of two heads
AddLosses(x, y) ==
    IF x = None \/ y = None THEN None
    ELSE IF x[1].kind = "float" /\ y[1].kind = "float"
    THEN <<Float(x[1].value + y[1].value)>>
    ELSE <<LossTensor>>

ScaleLosses(k, x) ==
    IF x = None THEN None
    ELSE IF x[1].kind = "float" THEN <<Float(k * x[1].value)>>
    ELSE <<LossTensor>>

Heads ==
    { "classifier", "multi_choice_question", "multi_classifier", "regressor",
      "ordinal_regressor", "sequence_labeler", "multi_crf_group_labeler",
      "multi_logit_group_labeler", "bros_decoder", "joint_bros_decoder",
      "token_relation_decoder", "joint_token_relation_decoder" }

\* the arguments of a head: the shape of hidden, n_targets, pad_id, the
\* keyword arguments and config.regression_loss
HeadInputs ==
    { [ head |-> h, batch |-> b, seq |-> q, n_targets |-> n, pad_id |-> p,
        targets |-> t, train |-> tr, class_weights |-> cw, use_crf |-> crf,
        multilabel |-> ml, shared_threshold_weights |-> sh, regression_loss |-> rl ] :
      h \in Heads, b \in 1..MaxBatch, q \in 1..MaxSeqLen, n \in 1..MaxTargets,
      p \in {0}, t \in BOOLEAN, tr \in BOOLEAN, cw \in BOOLEAN, crf \in BOOLEAN,
      ml \in BOOLEAN, sh \in BOOLEAN, rl \in {"L2", "l1", "huber"} }

\* perceptron(x, ny, config): tf.matmul(x, w) + b with w of shape [nx, ny]
perceptron(rows, ny) == Tensor(<<rows, ny>>)

classifier(a) ==
    Returned(perceptron(a.batch, a.n_targets),
             IF ~a.targets THEN None ELSE <<LossTensor>>)

\* hidden is [batch, n_targets, n_embed]
multi_choice_question(a) ==
    LET clf_out == perceptron(a.n_targets * a.batch, 1)
        split == Tensor(<<clf_out.shape[1] \div a.n_targets, 1>>)
    IN  Returned(Tensor(<<split.shape[1], a.n_targets * split.shape[2]>>),
                 IF ~a.targets THEN None ELSE <<LossTensor>>)

multi_classifier(a) ==
    Returned(perceptron(a.batch, a.n_targets),
             IF ~a.targets THEN None ELSE <<LossTensor>>)

regressor(a) ==
    IF ~a.targets THEN Returned(perceptron(a.batch, a.n_targets), None)
    ELSE IF a.regression_loss \in {"L2", "l2", "L1", "l1"}
    THEN Returned(perceptron(a.batch, a.n_targets), <<LossTensor>>)
    ELSE Raised("FinetuneError")

ordinal_regressor(a) ==
    LET logits == IF a.shared_threshold_weights
                  THEN Tensor(<<a.batch, a.n_targets>>)   \* [batch, 1] + [n_targets]
                  ELSE perceptron(a.batch, a.n_targets)
    IN  Returned(logits, IF ~a.targets THEN None ELSE <<LossTensor>>)

\* loss = 0.0 unless targets are given
sequence_labeler(a, targets, multilabel) ==
    IF multilabel
    THEN \* logits: n_targets tensors [batch, seq, 2] stacked on a last axis
         Returned(Tensor(<<a.batch, a.seq, 2, a.n_targets>>),
                  IF targets /\ (\E i \in 0..(a.n_targets - 1) : i # a.pad_id)
                  THEN <<LossTensor>> ELSE <<Float(0)>>)
    ELSE IF a.class_weights /\ a.train /\ ~targets
    THEN \* tf.one_hot(targets, depth=n_targets) with targets None
         Raised("ValueError")
    ELSE Returned(Tensor(<<a.batch, a.seq, a.n_targets>>),
                  IF targets THEN <<LossTensor>> ELSE <<Float(0)>>)

\* targets of multi_crf_group_labeler is [batch_size, 2, sequence_length]
TargetLayers == 2

\* lines 671-701: the two terms of the loss of multi_crf_group_labeler, each
\* with the logits it scores, the index of the target layer it scores them
\* against (targets[:, layer, :]) and the transition matrix it is given
CrfGroupLossTerms(a) ==
    IF ~a.targets THEN <<>>
    ELSE IF a.use_crf
    THEN << [ loss |-> "crf_log_likelihood", logits |-> "logits", layer |-> 0,
              transition_params |-> "Transition_matrix" ],
            [ loss |-> "crf_log_likelihood", logits |-> "group_logits", layer |-> 1,
              transition_params |-> "Group_transition_matrix" ] >>
    ELSE << [ loss |-> "sparse_softmax_cross_entropy", logits |-> "logits", layer |-> 2,
              transition_params |-> "none" ],
            [ loss |-> "sparse_softmax_cross_entropy", logits |-> "group_logits",
              layer |-> 1, transition_params |-> "none" ] >>

\* a term that indexes a layer targets does not have: the slice is out of
\* bounds (ValueError from the shape of the placeholder)
multi_crf_group_labeler(a) ==
    IF a.class_weights /\ a.train /\ ~a.targets
    THEN \* targets[:, 0, :] with targets None
         Raised("TypeError")
    ELSE IF \E i \in 1..Len(CrfGroupLossTerms(a)) :
                CrfGroupLossTerms(a)[i].layer >= TargetLayers
    THEN Raised("ValueError")
    ELSE Returned(<< Tensor(<<a.batch, a.seq, a.n_targets>>), Tensor(<<a.batch, a.seq, 3>>) >>,
                  IF a.targets THEN <<LossTensor>> ELSE <<Float(0)>>)

\* logits is reshaped to final_shape = [batch, seq, n_targets]
multi_logit_group_labeler(a) ==
    IF a.class_weights /\ a.train /\ ~a.targets
    THEN Raised("ValueError")
    ELSE IF a.targets /\ ~a.use_crf
    THEN \* loss += group_loss: the name group_loss is not defined
         Raised("NameError")
    ELSE Returned(Tensor(<<a.batch, a.seq, a.n_targets>>),
                  IF a.targets THEN <<LossTensor>> ELSE <<Float(0)>>)

bros_decoder(a, targets) ==
    Returned([ start_token_logits |-> Tensor(<<a.batch, a.seq, 2>>),
               next_token_logits |-> Tensor(<<a.batch, a.seq, a.seq + 1>>) ],
             IF targets THEN <<LossTensor>> ELSE <<Float(0)>>)

joint_bros_decoder(a) ==
    LET bros_dict == bros_decoder(a, a.targets)
        seq_dict == sequence_labeler(a, a.targets, FALSE)
    IN  IF seq_dict.err # "none" THEN seq_dict
        ELSE IF bros_dict.losses = None \/ seq_dict.losses = None THEN Raised("TypeError")
        ELSE Returned([ ner_logits |-> seq_dict.logits[1],
                        start_token_logits |-> bros_dict.logits[1].start_token_logits,
                        next_token_logits |-> bros_dict.logits[1].next_token_logits ],
                      AddLosses(bros_dict.losses, seq_dict.losses))

token_relation_decoder(a, targets) ==
    Returned(Tensor(<<a.batch, a.seq, a.seq>>),
             IF targets THEN <<LossTensor>> ELSE <<Float(0)>>)

joint_token_relation_decoder(a) ==
    LET token_relation_dict == token_relation_decoder(a, a.targets)
        seq_dict == sequence_labeler(a, a.targets, FALSE)
    IN  IF seq_dict.err # "none" THEN seq_dict
        ELSE IF token_relation_dict.losses = None \/ seq_dict.losses = None
        THEN Raised("TypeError")
        ELSE Returned([ ner_logits |-> seq_dict.logits[1],
                        group_logits |-> token_relation_dict.logits[1] ],
                      AddLosses(ScaleLosses(100, token_relation_dict.losses),
                                seq_dict.losses))

\* the call of the head named a.head
TargetHead(a) ==
    CASE a.head = "classifier" -> classifier(a)
      [] a.head = "multi_choice_question" -> multi_choice_question(a)
      [] a.head = "multi_classifier" -> multi_classifier(a)
      [] a.head = "regressor" -> regressor(a)
      [] a.head = "ordinal_regressor" -> ordinal_regressor(a)
      [] a.head = "sequence_labeler" -> sequence_labeler(a, a.targets, a.multilabel)
      [] a.head = "multi_crf_group_labeler" -> multi_crf_group_labeler(a)
      [] a.head = "multi_logit_group_labeler" -> multi_logit_group_labeler(a)
      [] a.head = "bros_decoder" -> bros_decoder(a, a.targets)
      [] a.head = "joint_bros_decoder" -> joint_bros_decoder(a)
      [] a.head = "token_relation_decoder" -> token_relation_decoder(a, a.targets)
      [] a.head = "joint_token_relation_decoder" -> joint_token_relation_decoder(a)

\* the head is built on the inputs the state holds
BuildTargetHead ==
    /\ graph.block = "target_head"
    /\ graph.outputs = <<>>
    /\ graph' = [graph EXCEPT !.outputs = <<TargetHead(graph.inputs[1])>>]
    /\ UNCHANGED << modelVars, cacheVars, pc, ft, inScope, disk, last, chunker,
                    model_dir, gen >>

(***************************************************************************)
(* bert_featurizer of base_models/bert/featurizer.py: the shapes of the    *)
(* tensors it returns.  X is the shape of the token ids (initial_shape),   *)
(* context is None or <<the context tensor>>.                              *)
(***************************************************************************)
RECURSIVE Prod(_)
Prod(shape) == IF shape = <<>> THEN 1 ELSE Head(shape) * Prod(Tail(shape))

\* tf.reshape(tensor, shape): the number of elements is kept
reshape(tensor, shape) ==
    IF Prod(tensor.shape) = Prod(shape)
    THEN [ t |-> <<Tensor(shape)>>, err |-> "none" ]
    ELSE [ t |-> <<>>, err |-> "InvalidArgumentError" ]

\* merge_leading_dims(X, 2): the dimensions before the last become one
merge_leading_dims(tensor) ==
    Tensor(<< Prod(SubSeq(tensor.shape, 1, Len(tensor.shape) - 1)),
              tensor.shape[Len(tensor.shape)] >>)

\* bert.get_sequence_output() and bert.get_pooled_output(): one vector of
\* the given width per token, and per sequence
BertSequenceOutput(X, width) == Tensor(<<Prod(X), width>>)
BertPooledOutput(X, width) == Tensor(<<Prod(SubSeq(X, 1, Len(X) - 1)), width>>)

FeaturizerRaised(err) == [ features |-> <<>>, sequence_features |-> <<>>, err |-> err ]

\* the module as python reads it: the keyword argument of line 50 is not
\* followed by a comma, so compiling the file raises SyntaxError
ModuleCompiles == FALSE

\* the body of bert_featurizer, lines 37-161
bert_featurizer_body(X, c, context) ==
    LET initial_shape == X
        leading == SubSeq(X, 1, Len(X) - 1)
        n_embed == IF context = None \/ c.mlm_baseline THEN c.n_embed
                   ELSE c.n_embed + c.n_context_embed_per_channel * c.context_dim
        features == reshape(BertPooledOutput(X, n_embed), leading \o <<n_embed>>)
        sequence_features ==
            reshape(BertSequenceOutput(X, n_embed), initial_shape \o <<n_embed>>)
    IN  IF c.num_layers_trained \notin {c.n_layer, 0} THEN FeaturizerRaised("ValueError")
        ELSE IF context # None /\ c.mlm_baseline
        THEN LET concat == Tensor(initial_shape \o
                                   <<n_embed + context[1].shape[Len(context[1].shape)]>>)
                 dense == Tensor(<<merge_leading_dims(concat).shape[1], c.n_embed>>)
                 projected == reshape(dense, leading \o <<c.n_embed>>)
             IN  IF projected.err # "none" THEN FeaturizerRaised(projected.err)
                 ELSE [ features |-> <<Tensor(leading \o <<c.n_embed>>)>>,
                        sequence_features |-> projected.t, err |-> "none" ]
        ELSE [ features |-> features.t, sequence_features |-> sequence_features.t,
               err |-> "none" ]

\* a call of bert_featurizer from a program that imports the module
bert_featurizer(X, c, context) ==
    IF ~ModuleCompiles THEN FeaturizerRaised("SyntaxError")
    ELSE bert_featurizer_body(X, c, context)

\* the arguments of bert_featurizer: X of shape [batch, sequence], the
\* settings the function reads, context of shape [batch, sequence, context_dim]
FeaturizerInputs ==
    { [ X |-> <<b, q>>,
        config |-> [ n_embed |-> e, n_layer |-> 2, num_layers_trained |-> t,
                     mlm_baseline |-> m, n_context_embed_per_channel |-> ce,
                     context_dim |-> cd ],
        context |-> IF ctx THEN <<Tensor(<<b, q, cd>>)>> ELSE None,
        train |-> tr ] :
      b \in 1..MaxBatch, q \in 1..MaxSeqLen, e \in 1..MaxEmbed, t \in 0..2,
      m \in BOOLEAN, ce \in 0..MaxContextEmbed, cd \in 1..MaxContextDim,
      ctx \in BOOLEAN, tr \in BOOLEAN }

\* the featurizer is built on the inputs the state holds
BuildFeaturizer ==
    /\ graph.block = "bert_featurizer"
    /\ graph.outputs = <<>>
    /\ \E a \in {graph.inputs[1]} :
           graph' = [graph EXCEPT !.outputs = <<bert_featurizer(a.X, a.config, a.context)>>]
    /\ UNCHANGED << modelVars, cacheVars, pc, ft, inScope, disk, last, chunker,
                    model_dir, gen >>

(***************************************************************************)
(* class_reweighted_grad of nn/target_blocks.py.  A tensor of values is a  *)
(* sequence of rows, one per token, each a sequence of one value per       *)
(* class; class_weights is [tokens, 1] and broadcasts over the classes.    *)
(* Arithmetic is exact: tf.norm is carried by its square, and a ratio of   *)
(* two norms by the pair of their squares.                                 *)
(***************************************************************************)
MaxGradTokens == 2
MaxGrad == 1
MaxWeight == 2

\* the classes of the logits
GradClassNames == <<"pad", "tag">>

RECURSIVE SumSeq(_)
SumSeq(q) == IF q = <<>> THEN 0 ELSE Head(q) + SumSeq(Tail(q))

\* tf.norm(t) squared: the sum of the squares of all elements
Norm2(t) == SumSeq([i \in 1..Len(t) |-> SumSeq([k \in 1..Len(t[i]) |-> t[i][k] * t[i][k]])])

\* tf.math.divide_no_nan(x, y) for two norms given by their squares: x / y,
\* and 0 when y is 0
divide_no_nan_Inverse(x2, y2) ==
    IF y2 = 0 THEN [ num2 |-> 0, den2 |-> 1 ] ELSE [ num2 |-> y2, den2 |-> x2 ]

divide_no_nan(x2, y2) ==
    IF y2 = 0 THEN [ num2 |-> 0, den2 |-> 1 ] ELSE [ num2 |-> x2, den2 |-> y2 ]

\* lines 367-370: the gradient returned for the incoming gradient g, as the
\* tensor new_g and the ratio every element of it is multiplied by
custom_grad_fn(g, class_weights) ==
    LET new_g == [i \in 1..Len(g) |-> [k \in 1..Len(g[i]) |-> g[i][k] * class_weights[i]]]
        ratio == divide_no_nan(Norm2(g), Norm2(new_g))
    IN  [ new_g |-> new_g, ratio |-> ratio ]

\* lines 378-379: the forward function
identity(l) == l

\* lines 366-381: the op returned for logits
class_reweighted_grad(logits, class_weights) == identity(logits)

\* tensors of values in vals, one row per token
GradTensors(tokens, vals) == [1..tokens -> [1..Len(GradClassNames) -> vals]]

\* the forward pass through the op
GradForward ==
    /\ graph.block = "class_reweighted_grad"
    /\ graph.outputs = <<>>
    /\ \E a \in {graph.inputs[1]} :
           graph' = [graph EXCEPT
                        !.outputs = <<class_reweighted_grad(a.logits, a.class_weights)>>]
    /\ UNCHANGED << modelVars, cacheVars, pc, ft, inScope, disk, last, chunker,
                    model_dir, gen >>

\* the backward pass through the op
GradBackward ==
    /\ graph.block = "class_reweighted_grad"
    /\ Len(graph.outputs) = 1
    /\ \E a \in {graph.inputs[1]} :
           graph' = [graph EXCEPT
                        !.outputs = Append(graph.outputs, custom_grad_fn(a.g, a.class_weights))]
    /\ UNCHANGED << modelVars, cacheVars, pc, ft, inScope, disk, last, chunker,
                    model_dir, gen >>

(***************************************************************************)
(* Construction and the specifications.                                    *)
(***************************************************************************)
\* BaseModel.__init__ with the config c
ConstructedInstance(c) ==
    /\ config = c
    /\ input_pipeline = [fitted |-> FALSE, config |-> "self.config"]
    /\ _trained = FALSE
    /\ saver_variables = EmptyMap
    /\ _predictions = None
    /\ _cached_predict = FALSE
    /\ _closed = FALSE
    /\ _to_pull = 0
    /\ _data = <<>>
    /\ _cached_example = NoExample
    /\ pc = "idle"
    /\ ft = NoFinetune
    /\ inScope = FALSE
    /\ last = LastOp("init")
    /\ chunker = NoChunker
    /\ model_dir = EmptyModelDir
    /\ gen = NoGeneration

Constructed(c) ==
    /\ ConstructedInstance(c)
    /\ graph = NoGraph

\* Spec: the inference protocol of an instance that was constructed with the
\* default config or loaded from an artifact found on disk
Init ==
    /\ Constructed(DefaultConfig)
    /\ disk \in {<<DefaultArtifact>>, <<LegacyArtifact>>}

Next ==
    \/ Load
    \/ EnterScope
    \/ CachedInference
    \/ UncachedInference
    \/ ExitScope
    \/ ScopeBodyRaises
    \/ Close

Spec == Init /\ [][Next]_vars

\* SpecTrain: training, saving and loading
InitTrain ==
    /\ \E c \in ConstructorConfigs : Constructed(c)
    /\ disk \in {<<>>, <<LegacyArtifact>>}

NextTrain ==
    \/ FinetuneCall
    \/ FtSetup
    \/ FtPrefitBegin
    \/ FtPrefitTrain
    \/ FtMainTrain
    \/ Save
    \/ Load

SpecTrain == InitTrain /\ [][NextTrain]_vars

\* SpecSetup: training under configs that vary devices, strategy, step
\* arithmetic and validation
InitSetup ==
    /\ \E c \in SetupConfigs : Constructed(c)
    /\ disk = <<>>

NextSetup ==
    \/ FinetuneCall
    \/ FtSetup
    \/ FtPrefitBegin
    \/ FtPrefitTrain
    \/ FtMainTrain

SpecSetup == InitSetup /\ [][NextSetup]_vars

\* SpecBase: base models written by an instance that is trained with a prefit
\* run, under a clock
InitBase ==
    /\ Constructed([DefaultConfig EXCEPT !.prefit_init = TRUE])
    /\ disk = <<>>

NextBase ==
    \/ FinetuneCall
    \/ FtSetup
    \/ FtPrefitBegin
    \/ FtPrefitTrain
    \/ FtMainTrain
    \/ CreateBaseModel
    \/ Tick

SpecBase == InitBase /\ [][NextBase]_vars

\* SpecAttn: attention weights of an instance in and out of cached mode,
\* loaded from an artifact of one of the base models
ArtifactOf(base_model) ==
    [DefaultArtifact EXCEPT !.state.config.base_model = base_model,
                            !.source.config.base_model = base_model]

InitAttn ==
    /\ \E b \in {"GPTModel", "BERT"} : Constructed([DefaultConfig EXCEPT !.base_model = b])
    /\ \E b \in {"GPTModelSmall", "RoBERTa"} : disk = <<ArtifactOf(b)>>

NextAttn ==
    \/ Load
    \/ EnterScope
    \/ AttentionWeights
    \/ ContextAttentionWeights

SpecAttn == InitAttn /\ [][NextAttn]_vars

\* SpecHeads: one target head built on inputs of every kind
InitHeads ==
    /\ ConstructedInstance(DefaultConfig)
    /\ disk = <<>>
    /\ \E a \in HeadInputs : graph = [ block |-> "target_head", inputs |-> <<a>>,
                                       outputs |-> <<>> ]

NextHeads == BuildTargetHead

SpecHeads == InitHeads /\ [][NextHeads]_vars

\* SpecFeat: the BERT featurizer built on inputs of every kind
InitFeat ==
    /\ ConstructedInstance(DefaultConfig)
    /\ disk = <<>>
    /\ \E a \in FeaturizerInputs : graph = [ block |-> "bert_featurizer", inputs |-> <<a>>,
                                             outputs |-> <<>> ]

NextFeat == BuildFeaturizer

SpecFeat == InitFeat /\ [][NextFeat]_vars

\* SpecGrad: a forward and a backward pass through class_reweighted_grad, on
\* logits, class weights per token and an incoming gradient of every kind
InitGrad ==
    /\ ConstructedInstance(DefaultConfig)
    /\ disk = <<>>
    /\ \E n \in 1..MaxGradTokens :
         \E v \in {0, MaxGrad}, w \in [1..n -> 0..MaxWeight],
            g \in GradTensors(n, {0 - MaxGrad, 0, MaxGrad}) :
              graph = [ block |-> "class_reweighted_grad",
                        inputs |-> << [ logits |-> [i \in 1..n |->
                                                      [k \in 1..Len(GradClassNames) |-> v]],
                                        class_weights |-> w, g |-> g ] >>,
                        outputs |-> <<>> ]

NextGrad ==
    \/ GradForward
    \/ GradBackward

SpecGrad == InitGrad /\ [][NextGrad]_vars

\* SpecGen: text generation on an instance constructed or loaded
GenConfigs == { [DefaultConfig EXCEPT !.max_length = n] : n \in 1..MaxLength }

InitGen ==
    /\ \E c \in GenConfigs : Constructed(c)
    /\ disk = <<DefaultArtifact>>

NextGen ==
    \/ Load
    \/ GenerateText
    \/ GenStep
    \/ GenReturn

SpecGen == InitGen /\ [][NextGen]_vars

\* SpecChunk: process_long_sequence on an instance constructed or loaded
InitChunk ==
    /\ Constructed(DefaultConfig)
    /\ disk = <<DefaultArtifact>>

NextChunk ==
    \/ Load
    \/ ProcessLongSequence
    \/ YieldChunk

SpecChunk == InitChunk /\ [][NextChunk]_vars

(***************************************************************************)
(* Claims about the inference protocol (Spec).                             *)
(***************************************************************************)
\* the examples whose predictions a call returned, in the order returned
ReturnedExamples == [i \in 1..Len(last.out) |-> last.out[i].ex]

\* C1: every cached inference call on a fit model that returns, returns the
\* predictions of exactly its own examples in input order, and the predictions
\* its _clear_prediction_queue discarded were all predictions of padding
\* examples.
C1_QueueDrain ==
    (last.op = "cached" /\ last.trained /\ last.err = "none") =>
        /\ ReturnedExamples = last.Xs
        /\ \A i \in 1..Len(last.drained) : last.drained[i] = Pad

\* C2: every cached inference call on a fit model has the outcome of the same
\* call (same examples, same predict keys, same context) made in uncached mode.
C2_CachedEqualsUncached ==
    (last.op = "cached" /\ last.trained) =>
        [out |-> last.out, err |-> last.err]
            = UncachedInferenceResult(last.Xs, last.keys, last.ctx, TRUE)

\* C3: every inference call on an instance that has not been fit, cached or
\* uncached, fails with FinetuneError.
C3_UntrainedFailsWithFinetuneError ==
    (last.op \in {"cached", "uncached"} /\ ~last.trained) => last.err = "FinetuneError"

\* C5: when a cached_predict scope has been left, by completion of its body or
\* by an exception, the instance is in uncached mode and holds no prediction
\* iterator.
C5_ScopeExitCloses ==
    (last.op \in {"exit", "exit_raise"}) => (~_cached_predict /\ _predictions = None)

\* C6: a cached inference call builds an estimator and a prediction iterator
\* exactly when the instance holds none, and leaves the instance holding one,
\* which only close() (called directly, or by leaving the scope) and load
\* discard: so between two closes only the first cached call builds, and every
\* later call reuses that iterator.  Every uncached call builds.
C6_BuiltOncePerScope ==
    [][ /\ (last'.op = "cached") =>
              /\ _predictions' # None
              /\ (_predictions # None) =>
                    (last'.built = 0 /\ _predictions'[1].keys = _predictions[1].keys)
              /\ (_predictions = None) => last'.built = 1
        /\ (last'.op = "uncached") => last'.built = 1
        /\ (_predictions # None /\ _predictions' = None) =>
              last'.op \in {"close", "exit", "load"} ]_vars

\* C6 witness: a cached call inside a scope that reused the iterator of an
\* earlier call and returned predictions
C6_Witness ==
    /\ inScope /\ last.op = "cached" /\ last.built = 0
    /\ last.err = "none" /\ Len(last.out) = MaxExamples

(***************************************************************************)
(* Claims about training, saving and loading (SpecTrain).                  *)
(***************************************************************************)
\* sized inputs and targets of different lengths
SizedMismatch(a) == ~a.xs_callable /\ ~a.y_none /\ a.xs_len # a.y_len

\* C4: a finetune call whose inputs are sized and whose targets are given with
\* a different length never gets past its length check; it ends with
\* FinetuneError before an input function is requested, an estimator built or a
\* training run started, with the trained flag, the weight store and the input
\* pipeline as they were; and no other call fails at the length check.
C4_LengthMismatchFails ==
    /\ [](pc # "idle" => ~SizedMismatch(ft.args[1]))
    /\ [][ (pc = "idle" /\ pc' = "idle" /\ last'.op = "finetune") =>
              /\ SizedMismatch(last'.args[1])
              /\ last'.err = "FinetuneError"
              /\ last'.log = <<>>
              /\ UNCHANGED << _trained, saver_variables, input_pipeline, config >> ]_vars

\* C4 witness: a trained instance has just refused a finetune call with sized
\* inputs and targets of different lengths
C4_Witness ==
    /\ last.op = "finetune" /\ last.err = "FinetuneError" /\ last.args # <<>>
    /\ _trained /\ saver_variables # EmptyMap

\* the weight-store entries that are not optimizer state
NonOptimizer(variables) == Restrict(variables, {k \in DOMAIN variables : ~HasAdam(k)})

C10_TrainedFlag ==
    /\ ~_trained
    /\ [][ /\ (_trained' # _trained) =>
                 /\ _trained'
                 /\ \/ pc = "ft_main" /\ last'.op = "finetune" /\ last'.err = "none"
                    \/ last'.op = "load"
           /\ (pc # "idle" /\ pc' = "idle" /\ last'.err # "none") => _trained' = _trained
           /\ (pc # "idle" /\ pc' = "idle" /\ last'.err = "none") => _trained' ]_vars

\* C10 witness: the main run of a finetune call has raised after a successful
\* prefit run, and the instance is still not trained
C10_Witness ==
    /\ ~_trained /\ last.op = "finetune" /\ last.err = "TrainError"
    /\ Len(last.log) > 0 /\ last.log[Len(last.log)] = "rescale"

(***************************************************************************)
(* Claims about load (Spec).                                               *)
(***************************************************************************)
\* C9: after load, every setting has the override if one was given, else the
\* saved value if the saved config has the setting, else False for
\* add_eos_bos_to_chunk and the default for any other setting; the input
\* pipeline is bound to that config; the instance is trained, in uncached mode,
\* without a prediction iterator and with _to_pull = 0.
C9_LoadPrecedence ==
    (last.op = "load") =>
        LET saved == disk[1].state.config
            kwargs == last.overrides
        IN  /\ DOMAIN config = Settings \cup DOMAIN saved \cup DOMAIN kwargs
            /\ \A s \in DOMAIN config :
                  config[s] = IF s \in DOMAIN kwargs THEN kwargs[s]
                              ELSE IF s \in DOMAIN saved THEN saved[s]
                              ELSE IF s = "add_eos_bos_to_chunk" THEN FALSE
                              ELSE DefaultConfig[s]
            /\ input_pipeline.config = "self.config"
            /\ _trained
            /\ _predictions = None /\ _to_pull = 0 /\ ~_cached_predict

\* C9 witness: a load, with overrides, of an artifact whose config lacks
\* settings and holds values that differ from the defaults
C9_Witness ==
    /\ last.op = "load" /\ last.overrides # EmptyMap
    /\ "add_eos_bos_to_chunk" \notin DOMAIN disk[1].state.config
    /\ \E s \in DOMAIN disk[1].state.config : disk[1].state.config[s] # DefaultConfig[s]

(***************************************************************************)
(* Claims about process_long_sequence (SpecChunk).                         *)
(***************************************************************************)
\* the chunks of the documents in flattened document order
ChunksInOrder(docs) ==
    LET before(i) == IF i = 0 THEN 0
                     ELSE Cardinality({p \in (1..i) \X (1..MaxChunks + 1) : p[2] <= docs[p[1]]})
        total == before(Len(docs))
    IN  [c \in 1..total |->
            LET d == CHOOSE i \in 1..Len(docs) : before(i - 1) < c /\ c <= before(i)
            IN  [doc |-> d, k |-> c - before(d - 1)]]

\* C7: process_long_sequence yields the chunks in flattened document order,
\* start_of_doc exactly on the first chunk of a document and end_of_doc exactly
\* on its last chunk; so once every chunk is yielded, each document with a chunk
\* has exactly one chunk with start_of_doc and exactly one with end_of_doc.
C7_ChunkBoundaries ==
    LET y == chunker.yielded
        order == ChunksInOrder(chunker.docs)
    IN  /\ Len(y) <= Len(order)
        /\ \A c \in 1..Len(y) :
              /\ y[c].position_seq = order[c]
              /\ y[c].start_of_doc <=> (order[c].k = 1)
              /\ y[c].end_of_doc <=> (order[c].k = chunker.docs[order[c].doc])
        /\ (Len(y) = Len(order)) =>
              \A d \in 1..Len(chunker.docs) :
                 chunker.docs[d] > 0 =>
                    /\ Cardinality({c \in 1..Len(y) :
                           y[c].position_seq.doc = d /\ y[c].start_of_doc}) = 1
                    /\ Cardinality({c \in 1..Len(y) :
                           y[c].position_seq.doc = d /\ y[c].end_of_doc}) = 1

\* C7 witness: every chunk has been yielded of a list that holds a document
\* without chunks, a document of one chunk and a document of several chunks
C7_Witness ==
    /\ chunker.docs # <<>>
    /\ Len(chunker.yielded) = Len(chunker.flat_array_encoded)
    /\ \E a, b, c \in 1..Len(chunker.docs) :
          chunker.docs[a] = 0 /\ chunker.docs[b] = 1 /\ chunker.docs[c] > 1 /\ a < c

(***************************************************************************)
(* Claims about the assembly of a training run (SpecSetup).                *)
(***************************************************************************)
\* the last n entries of a sequence
LastN(seq, n) == SubSeq(seq, Len(seq) - n + 1, Len(seq))

\* C11: with prefit_init a finetune call that returns has made exactly two
\* training runs of the same number of steps: one with num_layers_trained = 0,
\* then the strip and the rescaling of the weight store, then one with
\* num_layers_trained at its value before the call; the second run starts from
\* the stripped and rescaled store.  Without prefit_init it has made exactly one
\* run, with no strip and no rescaling, from a store that was never rescaled.
C11_PrefitTwoRuns ==
    /\ []((pc = "idle" /\ last.op = "finetune" /\ last.err = "none") =>
            IF config.prefit_init
            THEN /\ Len(last.runs) = 2
                 /\ last.runs[1].num_layers_trained = 0
                 /\ last.runs[2].num_layers_trained = last.before[1]
                 /\ last.runs[1].steps = last.runs[2].steps
                 /\ config.num_layers_trained = last.before[1]
                 /\ LastN(last.log, 4) = <<"train", "strip", "rescale", "train">>
            ELSE /\ Len(last.runs) = 1
                 /\ last.runs[1].num_layers_trained = last.before[1]
                 /\ \A i \in 1..Len(last.log) : last.log[i] \notin {"strip", "rescale"})
    /\ [][ (pc = "ft_main" /\ pc' = "idle" /\ last'.err = "none") =>
              IF config.prefit_init
              THEN /\ "global_step" \notin DOMAIN saver_variables
                   /\ saver_variables["model/target/w"] = "prefit_rescaled"
              ELSE \A k \in DOMAIN saver_variables : saver_variables[k] # "prefit_rescaled"
         ]_vars

\* C11 witness: a finetune call with prefit_init has returned, on a config
\* that trains every layer
C11_Witness ==
    /\ pc = "idle" /\ last.op = "finetune" /\ last.err = "none"
    /\ config.prefit_init /\ Len(last.runs) = 2 /\ last.before = <<2>>
    /\ last.runs[2].steps > 1

\* the strategy the configured name or object stands for, with several devices
StrategyNamed(d, central) ==
    IF d.type = "Strategy" THEN d.value
    ELSE IF d.value \in {"mirrored", "Mirrored"} THEN "MirroredStrategy"
    ELSE IF d.value = central THEN "CentralStorageStrategy"
    ELSE "FinetuneError"

\* what the strategy selection of a finetune call came to: the strategy the
\* estimator was built with, or the error the call ended with
StrategyOutcome == IF pc' = "idle" THEN last'.err ELSE ft'.distribute_strategy

\* the setup of a finetune call reaches the strategy selection and nothing
\* else in it fails, with a strategy name or object and at least one device
StrategySelected ==
    /\ pc = "ft_setup"
    /\ ~(pc' = "idle" /\ last'.err \in {"ValueError", "SetupError"})
    /\ Len(config.visible_gpus) >= 1
    /\ config.distribution_strategy.type \in {"str", "Strategy"}

\* C15 (as amended): one resolved device gives the single-device strategy
\* whatever is configured; several give the mirrored strategy for the name
\* mirrored, the central-storage strategy for the name central_storage, the
\* caller's object when an object is configured, FinetuneError for another name.
C15_DistributeStrategy ==
    [][ StrategySelected =>
          StrategyOutcome = IF Len(config.visible_gpus) = 1 THEN "OneDeviceStrategy"
                            ELSE StrategyNamed(config.distribution_strategy, "central_storage")
      ]_vars

\* C15 as stated: the central-storage strategy is selected by the name
\* central-storage
C15_AsStated ==
    [][ StrategySelected =>
          StrategyOutcome = IF Len(config.visible_gpus) = 1 THEN "OneDeviceStrategy"
                            ELSE StrategyNamed(config.distribution_strategy, "central-storage")
      ]_vars

\* C15 witness: an estimator was built with the central-storage strategy
C15_Witness ==
    /\ pc # "idle" /\ ft.distribute_strategy = "CentralStorageStrategy"
    /\ Len(ft.resolved_gpus) > 1

\* the setup of the running finetune call is complete
SetupDone == pc \in {"ft_prefit", "ft_prefit_run", "ft_main"}

\* C18: steps_per_epoch is the least s with
\* s * batch_size * max(1, resolved devices) >= dataset size, batch_size being
\* the argument or, when omitted, config.batch_size; every training run is
\* asked for steps_per_epoch * n_epochs steps.
C18_StepsPerEpoch ==
    /\ [](SetupDone =>
            LET batch_size == IF ft.args[1].batch_size = 0 THEN config.batch_size
                              ELSE ft.args[1].batch_size
                devices == IF Len(ft.resolved_gpus) > 1 THEN Len(ft.resolved_gpus) ELSE 1
                per_step == batch_size * devices
            IN  /\ ft.steps_per_epoch * per_step >= ft.dataset_size
                /\ \A s \in 0..(ft.steps_per_epoch - 1) : s * per_step < ft.dataset_size
                /\ ft.num_steps = ft.steps_per_epoch * config.n_epochs
                /\ \A i \in 1..Len(ft.runs) : ft.runs[i].steps = ft.num_steps)
    /\ [][ (pc = "ft_main" /\ pc' = "idle" /\ last'.err = "none") =>
              \A i \in 1..Len(last'.runs) :
                 last'.runs[i].steps = ft.steps_per_epoch * config.n_epochs ]_vars

\* C18 witness: a main run is about to start on two devices, with a batch_size
\* argument that differs from config.batch_size, a dataset that does not fill
\* the last step and several epochs
C18_Witness ==
    /\ pc = "ft_main" /\ Len(ft.resolved_gpus) = 2
    /\ ft.args[1].batch_size # 0 /\ ft.args[1].batch_size # config.batch_size
    /\ ft.dataset_size % (ft.batch_size * 2) # 0
    /\ config.n_epochs > 1

\* the hooks of the running call that evaluate on a validation set
EvaluationHooks ==
    { i \in 1..Len(ft.train_hooks) :
         ft.train_hooks[i].hook \in {"InMemoryEvaluatorHook", "InMemoryEvaluatorHook_train"} }

\* C19: the eval_frequency of the saver hook is the validation interval exactly
\* when config.tasks is None and the validation set is not empty, and
\* sys.maxsize otherwise, also when every task has a validation set; without
\* tasks an evaluation hook is registered iff the validation set is not empty.
C19_EvalFrequency ==
    SetupDone =>
        LET saver_hook == ft.train_hooks[Len(ft.train_hooks)]
            single == config.tasks = None
        IN  /\ saver_hook.hook = "SaverHook"
            /\ saver_hook.every_n_iter =
                  IF single /\ ft.val_size[1] > 0 THEN ft.val_interval[1] ELSE sys_maxsize
            /\ ft.val_interval[1] # sys_maxsize
            /\ single => (EvaluationHooks # {} <=> ft.val_size[1] > 0)

\* C19 witness: a multi-task run in which every task has a validation set
C19_Witness ==
    /\ SetupDone /\ config.tasks # None
    /\ \A t \in 1..Len(ft.val_size) : ft.val_size[t] > 0
    /\ EvaluationHooks # {}

(***************************************************************************)
(* Claims about create_base_model (SpecBase).                              *)
(***************************************************************************)
\* C12: create_base_model on an instance without weights fails with
\* FinetuneError and leaves the filestore as it was; on an instance with
\* weights it writes a file that holds exactly the weight-store entries whose
\* name contains "featurizer" and not "Adam", with their values; the weight
\* store is left as it was in both cases.
C12_CreateBaseModel ==
    /\ []((pc = "idle" /\ last.op = "create_base_model") =>
            IF saver_variables = EmptyMap
            THEN last.err = "FinetuneError"
            ELSE /\ last.err = "none"
                 /\ last.args[1].path \in DOMAIN model_dir.files
                 /\ LET written == model_dir.files[last.args[1].path]
                    IN  /\ DOMAIN written =
                              { k \in DOMAIN saver_variables :
                                   k \in {"model/featurizer/h0/w", "model/featurizer/h0/w/Adam"}
                                   /\ k # "model/featurizer/h0/w/Adam" }
                        /\ \A k \in DOMAIN written : written[k] = saver_variables[k])
    /\ [][ (pc = "idle" /\ pc' = "idle" /\ last'.op = "create_base_model") =>
              /\ UNCHANGED saver_variables
              /\ last'.err = "FinetuneError" => UNCHANGED model_dir.files ]_vars

\* C12 witness: a base model was written from a weight store that holds
\* optimizer state and target weights beside the featurizer's
C12_Witness ==
    /\ pc = "idle" /\ last.op = "create_base_model" /\ last.err = "none"
    /\ "model/featurizer/h0/w/Adam" \in DOMAIN saver_variables
    /\ "model/target/w" \in DOMAIN saver_variables

\* C13: a create_base_model call with exists_ok = False changes no file that
\* exists when the call starts; when the requested name exists it writes under
\* the name with the timestamp appended and logs a warning.
C13_NoOverwrite ==
    [][ (pc = "idle" /\ pc' = "idle" /\ last'.op = "create_base_model"
            /\ ~last'.args[1].exists_ok) =>
          /\ \A f \in DOMAIN model_dir.files :
                f \in DOMAIN model_dir'.files /\ model_dir'.files[f] = model_dir.files[f]
          /\ (model_dir'.files # model_dir.files
                 /\ [name |-> last'.args[1].filename, stamp |-> 0] \in DOMAIN model_dir.files) =>
                /\ last'.args[1].path.stamp = model_dir.time
                /\ last'.log = <<"warning">> ]_vars

(***************************************************************************)
(* Claims about generate_text (SpecGen).                                   *)
(***************************************************************************)
\* C14: with L the max_length argument, or config.max_length when none is
\* given, and s the number of seed tokens with the start token, the loop makes
\* at most max(0, L - 1 - s) steps and appends one token per step; a generated
\* end token is the last token; the sequence has at most max(s, L - 1) tokens.
C14_GenerateTextBound ==
    LET L == IF gen.max_length = None THEN gen.config_max_length ELSE gen.max_length[1]
        s == gen.seed_len
        n == Len(gen.token_ids)
    IN  /\ gen.steps <= Max(0, L - 1 - s)
        /\ n = s + gen.steps
        /\ \A p \in (s + 1)..n : gen.token_ids[p] = "EOS" => p = n
        /\ n <= Max(s, L - 1)

(***************************************************************************)
(* Claims about the attention weights (SpecAttn).                          *)
(***************************************************************************)
\* a failure that built no estimator, ran no inference and left the state of
\* cached inference as it was
FailsUntouched(err) ==
    /\ last'.err = err
    /\ last'.built = 0
    /\ last'.out = <<>> /\ last'.drained = <<>>
    /\ UNCHANGED << _predictions, _to_pull, _data >>

\* C20: attention_weights on a base model other than GPTModel and
\* GPTModelSmall fails with NotImplementedError, context_attention_weights
\* without context (None or empty) fails with ValueError; neither failure
\* builds an estimator, runs inference or changes _predictions, _to_pull, _data.
C20_AttentionFailures ==
    [][ /\ (last'.op = "attention_weights" /\ last' # last
               /\ config.base_model \notin {"GPTModel", "GPTModelSmall"})
           => FailsUntouched("NotImplementedError")
        /\ (last'.op = "context_attention_weights" /\ last' # last
               /\ last'.args[1].context \in {"None", "empty"})
           => FailsUntouched("ValueError") ]_vars

C20_Witness ==
    /\ last.op = "attention_weights" /\ last.err = "NotImplementedError"
    /\ config.base_model = "RoBERTa"
    /\ _predictions # None /\ _to_pull > 0

(***************************************************************************)
(* Claims about the target heads (SpecHeads).                              *)
(***************************************************************************)
\* C16: every target head called with targets = None builds its outputs
\* without error and returns losses None and logits that are defined.
C16_TargetsNone ==
    (graph.block = "target_head" /\ graph.outputs # <<>> /\ ~graph.inputs[1].targets) =>
        /\ graph.outputs[1].err = "none"
        /\ graph.outputs[1].losses = None
        /\ graph.outputs[1].logits # <<>>

(***************************************************************************)
(* Claims about the BERT featurizer (SpecFeat).                            *)
(***************************************************************************)
\* C17: for context absent or present and mlm_baseline off or on,
\* bert_featurizer returns sequence_features whose shape is the [batch,
\* sequence] shape of the input followed by config.n_embed.
C17_SequenceFeaturesShape ==
    (graph.block = "bert_featurizer" /\ graph.outputs # <<>>
        /\ graph.inputs[1].config.num_layers_trained
              \in {0, graph.inputs[1].config.n_layer}) =>
        /\ graph.outputs[1].err = "none"
        /\ graph.outputs[1].sequence_features =
              <<Tensor(graph.inputs[1].X \o <<graph.inputs[1].config.n_embed>>)>>

(***************************************************************************)
(* Claims about close (Spec).                                              *)
(***************************************************************************)
\* C21: after close() has run, directly or by leaving a scope, _predictions
\* is None and _to_pull is 0; the first cached inference call after a close
\* that returns on a fit model discards nothing and returns the predictions of
\* exactly its own examples.
C21_CloseResetsQueue ==
    /\ []((last.op \in {"close", "exit"} /\ last.err = "none") =>
             (_predictions = None /\ _to_pull = 0))
    /\ [][ (/\ last'.op = "cached" /\ last' # last
            /\ last.op \in {"close", "exit", "enter"} /\ last.err = "none"
            /\ _predictions = None
            /\ last'.trained /\ last'.err = "none") =>
              /\ last'.drained = <<>>
              /\ [i \in 1..Len(last'.out) |-> last'.out[i].ex] = last'.Xs ]_vars

(***************************************************************************)
(* Claims about the temporary state of generate_text (SpecGen).            *)
(***************************************************************************)
\* C22: when a generate_text call has returned or raised, the config has the
\* keys and values it had before the call.
C22_ConfigRestored ==
    (last.op = "generate_text" /\ pc = "idle") => config = last.before[1]

\* C23: the finished flag of the feeding generator is False during the whole
\* decode loop, becomes True only at the step that leaves the loop, and is True
\* after every call whose loop has ended, by an end token, by the length bound,
\* without a turn, or by an error of a decode step.
C23_FinishedSetOnce ==
    /\ [](pc = "gen_loop" => ~gen.finished)
    /\ []((pc = "idle" /\ last.op = "generate_text"
              /\ last.err \in {"none", "PredictError"}) => gen.finished)
    /\ [][ (~gen.finished /\ gen'.finished) => (pc = "gen_loop" /\ pc' = "idle") ]_vars

(***************************************************************************)
(* Claims about the end of close (Spec).                                   *)
(***************************************************************************)
\* C24: close() ends with _closed set and _predictions = None, whatever the
\* prediction iterator held; without an iterator it changes nothing but
\* _closed; a cached inference call after it resets _closed.
C24_CloseTerminates ==
    [][ /\ (last'.op \in {"close", "exit"} /\ last.op # "init") =>
              /\ last'.err = "none"
              /\ _closed' /\ _predictions' = None
              /\ (_predictions = None) =>
                    UNCHANGED << modelVars, _to_pull, _data, _cached_example >>
        /\ (last'.op = "cached" /\ last' # last) => ~_closed' ]_vars

(***************************************************************************)
(* Claims about the prefit run (SpecTrain).                                *)
(***************************************************************************)
\* C25: between the prefit run and the main run the weight store holds no
\* Adam slot variable and no step count, and holds every other variable of the
\* graph.
C25_PrefitStripsOptimizerState ==
    (pc = "ft_main" /\ ft.runs # <<>>) =>
        /\ \A k \in DOMAIN saver_variables : ~HasAdam(k) /\ ~HasGlobalStep(k)
        /\ \A k \in GraphVariables :
              (~HasAdam(k) /\ ~HasGlobalStep(k)) => k \in DOMAIN saver_variables

\* C30: the constraint of validate_config holds of the configuration while a
\* training run executes (the prefit run included) and whenever finetune has
\* returned or raised (a failure inside the prefit run included).
C30_ConfigValidWhileTraining ==
    /\ pc \in {"ft_prefit_run", "ft_main"} => ValidConfig(config)
    /\ (pc = "idle" /\ last.op = "finetune") => ValidConfig(config)

(***************************************************************************)
(* Claims about the outcomes of _distribute_strategy (SpecSetup).          *)
(***************************************************************************)
\* the setup of a finetune call reaches the strategy selection
StrategyCalled ==
    /\ pc = "ft_setup"
    /\ ~(pc' = "idle" /\ last'.err \in {"ValueError", "SetupError"})

\* C29: _distribute_strategy ends in one of two ways, whatever the devices and
\* the configured strategy: it returns a strategy and has stored the resolved
\* devices, or it raises FinetuneError and has stored nothing.
C29_StrategyOutcomes ==
    [][ StrategyCalled =>
          \E r \in {_distribute_strategy(config)} :
             \/ /\ pc' # "idle"
                /\ ft'.distribute_strategy # ""
                /\ r.set /\ ft'.resolved_gpus = all_gpus(config.visible_gpus)
             \/ /\ pc' = "idle" /\ last'.err = "FinetuneError"
                /\ ~r.set
      ]_vars

(***************************************************************************)
(* Claims about the losses of the sequence-labeling heads (SpecHeads).     *)
(***************************************************************************)
\* the head h was built on inputs with targets
BuiltWithTargets(h) ==
    /\ graph.block = "target_head" /\ graph.outputs # <<>>
    /\ graph.inputs[1].head = h
    /\ graph.inputs[1].targets

\* C26: multi_crf_group_labeler with targets [batch, 2, sequence] scores the
\* tag logits against target layer 0 with the tag transition matrix and the
\* group logits against layer 1 with the group transition matrix and returns
\* the sum of the two losses, with and without CRF; no loss term reads a
\* target layer other than 0 or 1.
C26_GroupLabelerLayers ==
    BuiltWithTargets("multi_crf_group_labeler") =>
        \E terms \in {CrfGroupLossTerms(graph.inputs[1])} :
            /\ Len(terms) = 2
            /\ terms[1].logits = "logits" /\ terms[1].layer = 0
            /\ terms[1].transition_params = "Transition_matrix"
            /\ terms[2].logits = "group_logits" /\ terms[2].layer = 1
            /\ terms[2].transition_params = "Group_transition_matrix"
            /\ \A i \in 1..Len(terms) : terms[i].layer \in 0..(TargetLayers - 1)
            /\ graph.outputs[1].err = "none"
            /\ graph.outputs[1].losses = <<LossTensor>>

\* C27: sequence_labeler (single-label and multi-label),
\* multi_crf_group_labeler and multi_logit_group_labeler, called with targets
\* and use_crf = False, return a loss and do not raise.
C27_NonCrfLossDefined ==
    \A h \in {"sequence_labeler", "multi_crf_group_labeler", "multi_logit_group_labeler"} :
        (BuiltWithTargets(h) /\ ~graph.inputs[1].use_crf) =>
            /\ graph.outputs[1].err = "none"
            /\ graph.outputs[1].losses # None

(***************************************************************************)
(* Claims about class_reweighted_grad (SpecGrad).                          *)
(***************************************************************************)
\* the backward pass through class_reweighted_grad has run
GradReturned == graph.block = "class_reweighted_grad" /\ Len(graph.outputs) = 2

\* C28: the forward pass returns the logits unchanged; the backward pass
\* returns the incoming gradient times the class weights, elementwise, scaled
\* by a ratio of norms that gives it the norm of the incoming gradient; when
\* the weighted gradient has norm zero the returned gradient is zero.
C28_ReweightedGradient ==
    /\ (graph.block = "class_reweighted_grad" /\ graph.outputs # <<>>) =>
          graph.outputs[1] = graph.inputs[1].logits
    /\ GradReturned =>
          \E a \in {graph.inputs[1]}, r \in {graph.outputs[2]} :
             /\ \A i \in 1..Len(a.g) : \A k \in 1..Len(a.g[i]) :
                    r.new_g[i][k] = a.g[i][k] * a.class_weights[i]
             /\ IF Norm2(r.new_g) = 0
                THEN r.ratio.num2 = 0
                ELSE /\ r.ratio.den2 > 0
                     /\ Norm2(r.new_g) * r.ratio.num2 = Norm2(a.g) * r.ratio.den2

\* C28 witness: a gradient whose weighted form has another norm, not zero, was
\* returned
C28_Witness ==
    /\ GradReturned
    /\ Norm2(graph.outputs[2].new_g) # 0
    /\ Norm2(graph.outputs[2].new_g) # Norm2(graph.inputs[1].g)

====
